---- MODULE Spec2Model ----
(***************************************************************************)
(* Task lifecycle manager and live-progress event relay of the ComfyUI     *)
(* FastAPI wrapper.                                                        *)
(*                                                                         *)
(* Two threads share the Redis task store:                                 *)
(*   - the event-loop thread, which runs the request handlers (generate,   *)
(*     get_task_status) and the coroutines scheduled with                  *)
(*     asyncio.create_task (_notify_proxy_server); a coroutine gives the   *)
(*     thread up at an await only, so generate runs through and            *)
(*     _notify_proxy_server waits for the answer to its POST;              *)
(*   - the websocket thread of ComfyUIClient, which runs the reconnect     *)
(*     loop of _start_websocket and, inside run_forever, the callbacks of  *)
(*     the socket, _on_ws_message for one message at a time.               *)
(* A step of a thread is one Redis command (or one HTTP call) together     *)
(* with the thread-local computation that follows it; the scan of          *)
(* get_task_by_prompt_id is KEYS and then one step per HGETALL.            *)
(*                                                                         *)
(* Spec is the service from its start: requests, the engine and its        *)
(* messages, the reconnect loop and every outcome of the S3 transfer,      *)
(* within the lifetime of the keys, with requests that carry no            *)
(* modifications and a Redis that answers every command. ServeSpec is the  *)
(* same two threads while the socket stays open and S3 storage is off, the *)
(* default of settings.S3_STORAGE_ENABLED. StoreSpec is TaskManager by     *)
(* itself, from the empty store: its methods called with any argument      *)
(* while the clock advances, keys expire and Redis commands fail. LoopSpec *)
(* is the event-loop thread and the clock: the requests, which fill the    *)
(* store, and the calls of TaskManager's methods, one handler at a time.   *)
(* NotifySpec is the event-loop thread with the notifications: the         *)
(* requests and status updates that schedule them, and every outcome of    *)
(* their POST. RelaySpec is _on_ws_message, fed any frame over an open     *)
(* socket, next to the requests and the clock, with Redis commands of the  *)
(* handler that fail, the webhook URL set and S3 storage off. ConnSpec is  *)
(* the reconnect loop of _start_websocket with the callbacks of the socket *)
(* it opens; ConnFairSpec adds that the websocket thread keeps running.    *)
(* SubmitSpec is generate by itself, with any modifications, while the     *)
(* clock advances, keys expire and store commands fail. WorkflowSpec is    *)
(* the workflow package called directly: the registry of the service, the  *)
(* methods of the executors it holds, and the constructor of               *)
(* WorkflowExecutor and the registry of src/backend. Every specification   *)
(* starts with an empty store.                                             *)
(*                                                                         *)
(* now is the clock datetime.now() reads, in the ticks that key lifetimes  *)
(* are counted in.                                                         *)
(***************************************************************************)
EXTENDS Integers, Sequences, FiniteSets, TLC

\* ------------------------------------------------------------------ bounds
MaxTasks == 2
MaxInbox == 1
MaxEvents == 2
\* Failed connection attempts in a row that the network is allowed.
MaxWaits == 9
\* Calls the store's client makes, and the lifetime of a key in clock ticks
\* (settings.TASK_TTL_SECONDS, scaled).
MaxCalls == 2
TaskTtl == 2
\* The last tick of the clock that is followed.
MaxNow == 2
\* Prompts WorkflowExecutor.execute gets to POST to the engine.
MaxPrompts == 2

\* --------------------------------------------------------------- constants
QUEUED == "queued"
PROCESSING == "processing"
COMPLETED == "completed"
FAILED == "failed"
UNKNOWN == "unknown"

\* Python's None and the empty hash that HGETALL returns for a missing key.
None == "None"
NoRecord == [id |-> 0]

Tasks == 1 .. MaxTasks
WorkflowNames == {"basic", "missing"}

\* The workflows directory holds basic.json only.
workflows == {"basic"}

\* PromptOf of an engine that gives every job the same id.
PromptOfReused(t) == "p1"

\* The prompt id the engine assigns to the job submitted for task t.
PromptOf(t) == "p" \o ToString(t)
PromptIds == {PromptOf(t) : t \in Tasks}

\* Results as stored (JSON text); "" is the empty field.
NotFoundResult == "error:not_found"
ImagesResult(url) == "images:" \o url

VARIABLES
    redis,          \* task id -> stored hash, or NoRecord
    next_id,        \* number of tasks created so far (uuid4 never repeats)
    webhook_url,    \* settings.PROXY_WEBHOOK_URL is non-empty
    loop_pc,        \* position of the event-loop thread
    loop_task,      \* task of the request being served
    loop_data,      \* Task of create_task, or mapping an update method built
    response,       \* task id -> HTTP response of generate, or None
    loop_tasks,     \* coroutines scheduled on the event loop, in order
    posting,        \* webhook POSTs sent whose response is awaited
    attempts,       \* task id -> number of webhook POSTs issued
    engine,         \* task id -> state of its job on the engine
    emitted,        \* number of messages the engine has sent
    is_connected,   \* ComfyUIClient.is_connected
    inbox,          \* messages received on the socket, not yet handled
    ws_pc,          \* position of the websocket thread
    ws_msg,         \* message being handled
    ws_task,        \* id of the task resolved for the message
    ws_keys,        \* keys of the scan in progress that are still to be read
    ws_data,        \* mapping the update method in progress built
    ws_progress,    \* progress computed from the message
    ws_result,      \* processed images of the finished prompt
    ever_terminal,  \* history: task ids whose stored status has been terminal
    expiry,         \* task id -> remaining lifetime of its key; 0: none set
    escaped,        \* exceptions that left a handler or coroutine uncaught
    notify_log,     \* what _notify_proxy_server logged last
    relay_log,      \* the last error _on_ws_message logged
    tm,             \* the TaskManager call of the store's client: current or last
    tm_ret,         \* what the last finished call returned
    calls,          \* number of calls the store's client has made
    thread_pc,      \* position of websocket_thread in its loop
    reconnect_needed,   \* ComfyUIClient.reconnect_needed
    reconnect_delay,    \* ComfyUIClient.reconnect_delay, in 1/DelayScale s
    ws_sent,        \* frames the client has sent on the open socket
    waits,          \* the reconnect sleeps since the socket last opened
    now,            \* datetime.now(), in ticks of the clock
    files,          \* names with a template file in the workflows directory
    loaded,         \* names the registry holds an executor for
    template,       \* workflow name -> widgets_values of its executor's nodes
    submitted,      \* task id -> modifications and payload of its request
    prompts,        \* workflows execute has POSTed to /prompt, in order
    wf_ret          \* outcome of the last call of the workflow package

vars == <<redis, next_id, webhook_url, loop_pc, loop_task, loop_data, response,
          loop_tasks, posting, attempts, engine, emitted, is_connected,
          inbox, ws_pc, ws_msg, ws_task, ws_keys, ws_data, ws_progress,
          ws_result,
          ever_terminal, expiry, escaped, notify_log, relay_log, tm, tm_ret,
          calls, thread_pc, reconnect_needed, reconnect_delay, ws_sent, waits,
          now, files, loaded, template, submitted, prompts, wf_ret>>

loop_vars == <<loop_pc, loop_task, loop_data, response, loop_tasks, posting,
               attempts, next_id>>
ws_vars == <<ws_pc, ws_msg, ws_task, ws_keys, ws_data, ws_progress, ws_result>>
engine_vars == <<engine, emitted, is_connected, inbox>>
tm_vars == <<tm, tm_ret, calls>>
conn_vars == <<thread_pc, reconnect_needed, reconnect_delay, ws_sent, waits>>
wf_vars == <<files, loaded, template, submitted, prompts, wf_ret>>

Terminal == {COMPLETED, FAILED}

\* Delays are counted in units of 1/DelayScale second: 5 * 1.5^k has at most
\* seven binary places as long as it is below the cap of 60.
DelayScale == 128
max_reconnect_delay == 60 * DelayScale

\* ------------------------------------------------------------ Task <-> hash
\* The datetimes the clock can show.
Dates == 0 .. MaxNow

\* A text that keeps the date and drops the time of day.
isoformat_date(d) == "T" \o ToString(d \div 2)

\* datetime.isoformat: the text stored in the hash.
isoformat(d) == "T" \o ToString(d)

\* datetime.fromisoformat: the datetime the text stands for.
fromisoformat(text) == CHOOSE d \in Dates : isoformat(d) = text

\* Task.to_redis_dict: result and prompt_id that are falsy are stored as "".
to_redis_dict(task) ==
    [id |-> task.id,
     workflow_name |-> task.workflow_name,
     status |-> task.status,
     progress |-> task.progress,
     created_at |-> isoformat(task.created_at),
     updated_at |-> isoformat(task.updated_at),
     result |-> IF task.result = None THEN "" ELSE task.result,
     prompt_id |-> IF task.prompt_id = None THEN "" ELSE task.prompt_id]

\* Task.from_redis_dict: empty result and prompt_id fields become None.
from_redis_dict(data) ==
    [id |-> data.id,
     workflow_name |-> data.workflow_name,
     status |-> data.status,
     progress |-> data.progress,
     created_at |-> fromisoformat(data.created_at),
     updated_at |-> fromisoformat(data.updated_at),
     result |-> IF data.result = "" THEN None ELSE data.result,
     prompt_id |-> IF data.prompt_id = "" THEN None ELSE data.prompt_id]

\* The Task object create_task builds.
NewTask(task_id, workflow_name) ==
    [id |-> task_id,
     workflow_name |-> workflow_name,
     status |-> QUEUED,
     progress |-> 0,
     created_at |-> now,
     updated_at |-> now,
     result |-> None,
     prompt_id |-> None]

\* HGETALL task:<task_id>
hgetall(task_id) == redis[task_id]

\* Whether ever_terminal gains t when its hash becomes data.
NoteTerminal(t, data) ==
    IF data.status \in Terminal THEN ever_terminal \cup {t} ELSE ever_terminal

\* HSET task:<task_id> mapping=data
hset(task_id, data) ==
    /\ redis' = [redis EXCEPT ![task_id] = data]
    /\ ever_terminal' = NoteTerminal(task_id, data)

\* EXPIRE task:<task_id> ttl, a command of its own after the HSET of the
\* same method: a key that exists lives for the full TTL from now on, a key
\* that is gone is left alone.
expire(task_id) ==
    expiry' = [expiry EXCEPT ![task_id] =
                  IF redis[task_id] # NoRecord THEN TaskTtl ELSE @]

\* ------------------------------------------------------- TaskManager writes
\* ProgressMapping that stores the argument as it is.
ProgressMappingUnclamped(task_data, progress) ==
    LET task == from_redis_dict(task_data)
    IN to_redis_dict([task EXCEPT !.progress = progress, !.updated_at = now])

\* update_task_progress: the mapping written back, built from the Task that
\* was parsed from the hash read earlier.
ProgressMapping(task_data, progress) ==
    LET task == from_redis_dict(task_data)
        clamped == IF progress > 100 THEN 100 ELSE IF progress < 0 THEN 0 ELSE progress
    IN to_redis_dict([task EXCEPT !.progress = clamped, !.updated_at = now])

\* update_prompt_id: the mapping written back.
PromptIdMapping(task_data, prompt_id) ==
    LET task == from_redis_dict(task_data)
    IN to_redis_dict([task EXCEPT !.prompt_id = prompt_id, !.updated_at = now])

\* A status write that records COMPLETED as FAILED.
StatusMappingFailed(task_data, status, result) ==
    [task_data EXCEPT !.status = IF status = COMPLETED THEN FAILED ELSE status,
                      !.result = IF result # None THEN result ELSE @,
                      !.updated_at = isoformat(now)]

\* update_task_status: the hash read earlier with status (and result, when
\* one is passed) replaced.
StatusMapping(task_data, status, result) ==
    [task_data EXCEPT !.status = status,
                      !.result = IF result # None THEN result ELSE @,
                      !.updated_at = isoformat(now)]

\* update_task_result: the hash read earlier with result replaced.
ResultMapping(task_data, result) ==
    [task_data EXCEPT !.result = result, !.updated_at = isoformat(now)]

\* update_task_parameters: the mapping written back. The parameters field
\* it merges into is not among the fields kept here.
ParametersMapping(task_data) ==
    to_redis_dict([from_redis_dict(task_data) EXCEPT !.updated_at = now])

\* ShouldNotify without the test of the new status.
ShouldNotifyAnyStatus(status) ==
    webhook_url

\* update_task_status: the condition under which a notification is created.
ShouldNotify(status) ==
    webhook_url /\ (status = COMPLETED \/ status = FAILED)

\* ------------------------------------------------------------ HTTP replies
NoResponse == [code |-> 0, status |-> None, detail |-> None]

\* generate, outer handler: every exception leaving the inner block,
\* the HTTPException raised by the inner handlers included, becomes a 500.
OuterExcept(e) ==
    [code |-> 500, status |-> None, detail |-> "Error generating output: " \o e]

\* generate: the body returned after a successful submission.
Queued ==
    [code |-> 200, status |-> "queued", detail |-> None]

\* ------------------------------------------------- calls of the store's client
\* A TaskManager call in progress: the method, its arguments, the position
\* in it, the mapping it built from the hash it read and the keys it
\* scanned; NoCall between calls.
Call(op, pc, task_id, progress, status, result, prompt_id) ==
    [op |-> op, pc |-> pc, task_id |-> task_id, progress |-> progress,
     status |-> status, result |-> result, prompt_id |-> prompt_id,
     data |-> NoRecord, keys |-> <<>>]

NoCall == Call("none", "none", 0, 0, None, None, None)

\* What a call returned: the method and the task id it was called with, ok
\* the truth value of the return value, task the Task returned (NoRecord for
\* None), store_error whether a Redis command of the call raised.
Return(op, task_id, ok, task, store_error) ==
    [op |-> op, task_id |-> task_id, ok |-> ok, task |-> task,
     store_error |-> store_error]

NoReturn == Return("none", 0, FALSE, NoRecord, FALSE)

\* ------------------------------------------------ workflow templates
\* The nodes of basic.json in file order: the id of each; for each of its
\* inputs, in order, the name of the widget the input declares, None for an
\* input without one (a link); and its widgets_values as the file has them.
NodeIds == <<"3", "6">>
NodeInputs == << <<"seed">>, <<None, "text", "strength">> >>
TemplateFile == << <<1>>, <<2, 3>> >>

\* No payload: the request did not get as far as update_workflow.
NoPayload == <<>>

\* One entry of a modifications dict: node id -> {key: value}.
Modification(node, key, value) == [node |-> node, key |-> key, value |-> value]

\* modify_node, the search for the node: whether a node of
\* self.workflow["nodes"] has the id.
HasNode(node_id) == \E n \in 1 .. Len(NodeIds) : NodeIds[n] = node_id

\* The modifications a request carries, as its entries in order: none, a
\* widget of either node, a node id the template does not have, a key that
\* is no widget of the node, and a widget whose input lies beyond the
\* widgets_values of its node.
Modifications ==
    {<<>>,
     <<Modification("3", "seed", 42)>>,
     <<Modification("6", "text", 7)>>,
     <<Modification("999", "seed", 42)>>,
     <<Modification("3", "steps", 42)>>,
     <<Modification("6", "strength", 9)>>}

\* update_workflow, the search for the widget: the position, among all the
\* inputs of the node, of the first input that declares a widget named key
\* (counted from 1), and 0 when there is none (widget_index stays None).
WidgetIndex(inputs, key) ==
    LET declared == {i \in 1 .. Len(inputs) : inputs[i] = key}
    IN IF declared = {} THEN 0
       ELSE CHOOSE i \in declared : \A j \in declared : i <= j

\* update_workflow, one entry: when the node id is in normalized_nodes, an
\* input of the node declares a widget named key and the position of that
\* input is within widgets_values, the value at that position is assigned;
\* any other entry is passed over.
ModifyNode(nodes, m) ==
    [n \in 1 .. Len(nodes) |->
        LET widget_index == WidgetIndex(NodeInputs[n], m.key)
        IN IF /\ NodeIds[n] = m.node
              /\ widget_index # 0
              /\ widget_index <= Len(nodes[n])
           THEN [nodes[n] EXCEPT ![widget_index] = m.value]
           ELSE nodes[n]]

\* The node ids and updates modify_node is called with: the entries of the
\* modifications a request carries.
NodeUpdates ==
    UNION {{mods[i] : i \in 1 .. Len(mods)} : mods \in Modifications}

RECURSIVE ModifyNodes(_, _)
\* update_workflow, the loop over modifications.items(), on the node
\* objects of normalized_nodes.
ModifyNodes(nodes, mods) ==
    IF mods = <<>> THEN nodes
    ELSE ModifyNodes(ModifyNode(nodes, Head(mods)), Tail(mods))

\* The widget values the executor holds once update_workflow has returned:
\* normalized_nodes holds the node objects of self.workflow["nodes"], which
\* the loop assigns to.
NodesAfterUpdate(nodes, mods) == ModifyNodes(nodes, mods)

\* update_workflow: the payload returned. self.workflow.copy() copies the
\* outer dict only, so the payload has the executor's node objects.
update_workflow(nodes, mods) == NodesAfterUpdate(nodes, mods)

\* WorkflowExecutor(workflow_file) of the service. app/workflows/base.py of
\* ComfyUI-fastapi is not among the sources; as the workflow template
\* resolver of the specification it yields the template of a file that
\* exists. (The executor of backend/, whose constructor raises, is
\* WorkflowExecutorInit below.)
ServiceExecutor(name) == TemplateFile

\* load_workflows: the registry is cleared and an executor is made from
\* each file.
LoadWorkflows == [n \in WorkflowNames |-> ServiceExecutor(n)]

\* get_workflow(name): a name the registry does not hold makes it reload.
\* The names it holds afterwards, the widget values of its executors, and
\* whether the name is among them (WorkflowNotFoundError when it is not).
LoadedAfter(name) == IF name \in loaded THEN loaded ELSE files
TemplateAfter(name) == IF name \in loaded THEN template ELSE LoadWorkflows
Found(name) == name \in LoadedAfter(name)

\* What a request got from update_workflow.
Submission(mods, payload) == [modifications |-> mods, payload |-> payload]
NoSubmission == Submission(<<>>, NoPayload)

\* The outcome of a call of the workflow package: the exception raised (None
\* for a return) and the widget values of the executor or payload returned
\* (NoPayload when the call raises or returns None).
\* found: whether the directory the call looked in has a file for the name;
\* valid: whether every file the call read held JSON.
WorkflowReturn(op, name, found, valid, raised, value) ==
    [op |-> op, name |-> name, found |-> found, valid |-> valid,
     raised |-> raised, value |-> value]
NoWorkflowReturn ==
    WorkflowReturn("none", "none", FALSE, TRUE, None, NoPayload)

\* Subscribe for progress messages only.
SubscribeProgressOnly ==
    [type |-> "subscribe", events |-> <<"progress">>]

\* The subscription request _on_ws_open sends.
Subscribe ==
    [type |-> "subscribe",
     events |-> <<"progress", "executing", "execution_cached">>]

\* ----------------------------------------------------------------- Init
\* ComfyUIClient.__init__, the part that is about the connection: the
\* thread has not made a socket yet.
Unconnected ==
    /\ is_connected = FALSE
    /\ thread_pc = "top"
    /\ reconnect_needed = TRUE
    /\ reconnect_delay = 5 * DelayScale
    /\ ws_sent = <<>>
    /\ waits = <<>>

\* The connection once the thread has come through line 62 into run_forever
\* and on_open has run: what Connect and HandshakeSucceeds make of
\* Unconnected.
Connected ==
    /\ is_connected = TRUE
    /\ thread_pc = "open"
    /\ reconnect_needed = FALSE
    /\ reconnect_delay = 5 * DelayScale
    /\ ws_sent = <<Subscribe>>
    /\ waits = <<>>

\* The service with an empty store, no request served and no message
\* received, whatever the connection.
Fresh ==
    /\ now = 0
    /\ redis = [t \in Tasks |-> NoRecord]
    /\ next_id = 1
    /\ webhook_url \in BOOLEAN
    /\ loop_pc = "idle"
    /\ loop_task = 0
    /\ loop_data = NoRecord
    /\ response = [t \in Tasks |-> NoResponse]
    /\ loop_tasks = <<>>
    /\ posting = <<>>
    /\ attempts = [t \in Tasks |-> 0]
    /\ engine = [t \in Tasks |-> "none"]
    /\ emitted = 0
    /\ inbox = <<>>
    /\ ws_pc = "idle"
    /\ ws_msg = None
    /\ ws_task = 0
    /\ ws_keys = <<>>
    /\ ws_data = NoRecord
    /\ ws_progress = 0
    /\ ws_result = ""
    /\ ever_terminal = {}
    /\ expiry = [t \in Tasks |-> 0]
    /\ escaped = {}
    /\ notify_log = None
    /\ relay_log = None
    /\ tm = NoCall
    /\ tm_ret = NoReturn
    /\ calls = 0
    /\ files = workflows
    /\ loaded = workflows
    /\ template = LoadWorkflows
    /\ submitted = [t \in Tasks |-> NoSubmission]
    /\ prompts = <<>>
    /\ wf_ret = NoWorkflowReturn

\* The service as it starts.
Init == Fresh /\ Unconnected

\* The service in use: the websocket thread has connected.
ServeInit == Fresh /\ Connected

\* ------------------------------------------------- event-loop thread: generate
\* generate after create_task: get_workflow and update_workflow. A name
\* that is not in the registry makes get_workflow reload it before it
\* raises WorkflowNotFoundError.
ResolveWorkflow(task_id, workflow_name, modifications) ==
    /\ loop_pc' = IF Found(workflow_name) THEN "queue_prompt" ELSE "failed_read"
    /\ loaded' = LoadedAfter(workflow_name)
    /\ template' = IF Found(workflow_name)
                   THEN [TemplateAfter(workflow_name) EXCEPT ![workflow_name] =
                            NodesAfterUpdate(@, modifications)]
                   ELSE TemplateAfter(workflow_name)
    /\ submitted' = [submitted EXCEPT ![task_id] =
                        IF Found(workflow_name)
                        THEN Submission(modifications,
                                        update_workflow(
                                            TemplateAfter(workflow_name)[workflow_name],
                                            modifications))
                        ELSE Submission(modifications, NoPayload)]

\* generate, create_task: the Task is built with the time of the clock and
\* its mapping is written with HSET.
Generate(workflow_name, modifications) ==
    /\ loop_pc = "idle"
    /\ next_id <= MaxTasks
    /\ hset(next_id, to_redis_dict(NewTask(next_id, workflow_name)))
    /\ next_id' = next_id + 1
    /\ loop_task' = next_id
    /\ loop_data' = to_redis_dict(NewTask(next_id, workflow_name))
    /\ loop_pc' = "create_expire"
    /\ submitted' = [submitted EXCEPT ![next_id] =
                        Submission(modifications, NoPayload)]
    /\ UNCHANGED <<webhook_url, response, loop_tasks, posting, attempts>>
    /\ UNCHANGED <<engine_vars, ws_vars>>
    /\ UNCHANGED <<files, loaded, template, prompts, wf_ret>>
    /\ UNCHANGED <<now, conn_vars, tm_vars, notify_log, relay_log, escaped, expiry>>

\* create_task: EXPIRE, and the Task is returned; generate goes on to
\* resolve the workflow of the request.
CreateTaskExpire ==
    /\ loop_pc = "create_expire"
    /\ expire(loop_task)
    /\ ResolveWorkflow(loop_task, loop_data.workflow_name,
                       submitted[loop_task].modifications)
    /\ loop_data' = NoRecord
    /\ UNCHANGED <<redis, ever_terminal, webhook_url, loop_task, response,
                   loop_tasks, posting, attempts, next_id>>
    /\ UNCHANGED <<engine_vars, ws_vars>>
    /\ UNCHANGED <<files, prompts, wf_ret>>
    /\ UNCHANGED <<now, conn_vars, tm_vars, notify_log, relay_log, escaped>>

\* create_task when its HSET raises RedisError: the error is logged and the
\* Task is returned, so generate goes on with a task that has no record.
GenerateCreateError(workflow_name, modifications) ==
    /\ loop_pc = "idle"
    /\ next_id <= MaxTasks
    /\ next_id' = next_id + 1
    /\ loop_task' = next_id
    /\ ResolveWorkflow(next_id, workflow_name, modifications)
    /\ UNCHANGED <<redis, ever_terminal, webhook_url, loop_data, response,
                   loop_tasks, posting, attempts>>
    /\ UNCHANGED <<engine_vars, ws_vars>>
    /\ UNCHANGED <<files, prompts, wf_ret>>
    /\ UNCHANGED <<now, conn_vars, tm_vars, notify_log, relay_log, escaped, expiry>>

\* queue_prompt, lines 204-206: a client that is not connected logs a
\* warning and asks its thread for a reconnect.
ReconnectIfDisconnected ==
    reconnect_needed' = (reconnect_needed \/ ~is_connected)

\* queue_prompt up to its POST: the test of is_connected and the write of
\* reconnect_needed, which the websocket thread reads at the top of its
\* loop.
QueuePromptEnter ==
    /\ loop_pc = "queue_prompt"
    /\ ReconnectIfDisconnected
    /\ loop_pc' = "post_prompt"
    /\ UNCHANGED <<redis, ever_terminal, webhook_url, loop_task, loop_data,
                   response, loop_tasks, posting, attempts, next_id>>
    /\ UNCHANGED <<engine_vars, ws_vars>>
    /\ UNCHANGED <<thread_pc, reconnect_delay, ws_sent, waits>>
    /\ UNCHANGED <<now, wf_vars, tm_vars, notify_log, relay_log, escaped, expiry>>

\* queue_prompt: POST /prompt; the engine answers with a prompt id, or the
\* call raises and generate's outer handler answers 500.
QueuePrompt(accepted) ==
    /\ loop_pc = "post_prompt"
    /\ IF accepted
       THEN /\ engine' = [engine EXCEPT ![loop_task] = "running"]
            /\ loop_pc' = "prompt_id_read"
            /\ UNCHANGED <<response, loop_task>>
       ELSE /\ response' = [response EXCEPT ![loop_task] = OuterExcept("URLError")]
            /\ loop_pc' = "idle"
            /\ loop_task' = 0
            /\ UNCHANGED engine
    /\ UNCHANGED <<redis, ever_terminal, webhook_url, loop_data, loop_tasks, posting,
                   attempts, next_id, emitted, is_connected, inbox>>
    /\ UNCHANGED ws_vars
    /\ UNCHANGED <<now, wf_vars, conn_vars, tm_vars, notify_log, relay_log, escaped, expiry>>

\* update_prompt_id: HGETALL; from a hash that is not empty the method
\* builds the mapping it will write, with the time the clock shows now.
UpdatePromptIdRead ==
    /\ loop_pc = "prompt_id_read"
    /\ loop_data' = IF hgetall(loop_task) = NoRecord
                    THEN NoRecord
                    ELSE PromptIdMapping(hgetall(loop_task), PromptOf(loop_task))
    /\ loop_pc' = IF hgetall(loop_task) = NoRecord THEN "status_read" ELSE "prompt_id_write"
    /\ UNCHANGED <<redis, ever_terminal, webhook_url, loop_task, response,
                   loop_tasks, posting, attempts, next_id>>
    /\ UNCHANGED <<engine_vars, ws_vars>>
    /\ UNCHANGED <<now, wf_vars, conn_vars, tm_vars, notify_log, relay_log, escaped, expiry>>

\* update_prompt_id: HSET of the mapping built after the read.
UpdatePromptIdWrite ==
    /\ loop_pc = "prompt_id_write"
    /\ hset(loop_task, loop_data)
    /\ loop_pc' = "prompt_id_expire"
    /\ loop_data' = NoRecord
    /\ UNCHANGED <<webhook_url, loop_task, response, loop_tasks, posting, attempts,
                   next_id>>
    /\ UNCHANGED <<engine_vars, ws_vars>>
    /\ UNCHANGED <<now, wf_vars, conn_vars, tm_vars, notify_log, relay_log, escaped, expiry>>

\* update_prompt_id: EXPIRE, and the method returns True.
UpdatePromptIdExpire ==
    /\ loop_pc = "prompt_id_expire"
    /\ expire(loop_task)
    /\ loop_pc' = "status_read"
    /\ UNCHANGED <<redis, ever_terminal, webhook_url, loop_task, loop_data,
                   response, loop_tasks, posting, attempts, next_id>>
    /\ UNCHANGED <<engine_vars, ws_vars>>
    /\ UNCHANGED <<now, wf_vars, conn_vars, tm_vars, notify_log, relay_log, escaped>>

\* update_task_status(PROCESSING): HGETALL; the hash that is not empty gets
\* the new status and the time the clock shows now.
UpdateStatusRead ==
    /\ loop_pc = "status_read"
    /\ loop_data' = IF hgetall(loop_task) = NoRecord
                    THEN NoRecord
                    ELSE StatusMapping(hgetall(loop_task), PROCESSING, None)
    /\ IF hgetall(loop_task) = NoRecord
       THEN /\ response' = [response EXCEPT ![loop_task] = Queued]
            /\ loop_pc' = "idle"
            /\ loop_task' = 0
       ELSE /\ loop_pc' = "status_write"
            /\ UNCHANGED <<response, loop_task>>
    /\ UNCHANGED <<redis, ever_terminal, webhook_url, loop_tasks, posting, attempts,
                   next_id>>
    /\ UNCHANGED <<engine_vars, ws_vars>>
    /\ UNCHANGED <<now, wf_vars, conn_vars, tm_vars, notify_log, relay_log, escaped, expiry>>

\* update_task_status(PROCESSING): HSET of the mapping built after the
\* read.
UpdateStatusWrite ==
    /\ loop_pc = "status_write"
    /\ hset(loop_task, loop_data)
    /\ loop_pc' = "status_expire"
    /\ loop_data' = NoRecord
    /\ UNCHANGED <<webhook_url, loop_task, response, loop_tasks, posting, attempts,
                   next_id>>
    /\ UNCHANGED <<engine_vars, ws_vars>>
    /\ UNCHANGED <<now, wf_vars, conn_vars, tm_vars, notify_log, relay_log, escaped, expiry>>

\* update_task_status(PROCESSING): EXPIRE, the notification when
\* ShouldNotify, then generate returns.
UpdateStatusExpire ==
    /\ loop_pc = "status_expire"
    /\ expire(loop_task)
    /\ loop_tasks' = IF ShouldNotify(PROCESSING)
                     THEN Append(loop_tasks, [task_id |-> loop_task, status |-> PROCESSING])
                     ELSE loop_tasks
    /\ response' = [response EXCEPT ![loop_task] = Queued]
    /\ loop_pc' = "idle"
    /\ loop_task' = 0
    /\ UNCHANGED <<redis, ever_terminal, webhook_url, loop_data, attempts,
                   next_id>>
    /\ UNCHANGED <<engine_vars, ws_vars>>
    /\ UNCHANGED <<now, wf_vars, conn_vars, tm_vars, notify_log, relay_log, escaped>>
    /\ UNCHANGED posting

\* except WorkflowNotFoundError: update_task_status(FAILED, error): HGETALL;
\* the hash that is not empty gets the new status, the error as result and
\* the time the clock shows now.
FailedRead ==
    /\ loop_pc = "failed_read"
    /\ loop_data' = IF hgetall(loop_task) = NoRecord
                    THEN NoRecord
                    ELSE StatusMapping(hgetall(loop_task), FAILED, NotFoundResult)
    /\ IF hgetall(loop_task) = NoRecord
       THEN /\ response' = [response EXCEPT ![loop_task] = OuterExcept("404: not found")]
            /\ loop_pc' = "idle"
            /\ loop_task' = 0
       ELSE /\ loop_pc' = "failed_write"
            /\ UNCHANGED <<response, loop_task>>
    /\ UNCHANGED <<redis, ever_terminal, webhook_url, loop_tasks, posting, attempts,
                   next_id>>
    /\ UNCHANGED <<engine_vars, ws_vars>>
    /\ UNCHANGED <<now, wf_vars, conn_vars, tm_vars, notify_log, relay_log, escaped, expiry>>

\* except WorkflowNotFoundError: update_task_status(FAILED, error): HSET of
\* the mapping built after the read.
FailedWrite ==
    /\ loop_pc = "failed_write"
    /\ hset(loop_task, loop_data)
    /\ loop_pc' = "failed_expire"
    /\ loop_data' = NoRecord
    /\ UNCHANGED <<webhook_url, loop_task, response, loop_tasks, posting, attempts,
                   next_id>>
    /\ UNCHANGED <<engine_vars, ws_vars>>
    /\ UNCHANGED <<now, wf_vars, conn_vars, tm_vars, notify_log, relay_log, escaped, expiry>>

\* except WorkflowNotFoundError: EXPIRE, the notification, then
\* raise HTTPException(404), which the outer handler catches.
FailedExpire ==
    /\ loop_pc = "failed_expire"
    /\ expire(loop_task)
    /\ loop_tasks' = IF ShouldNotify(FAILED)
                     THEN Append(loop_tasks, [task_id |-> loop_task, status |-> FAILED])
                     ELSE loop_tasks
    /\ response' = [response EXCEPT ![loop_task] = OuterExcept("404: not found")]
    /\ loop_pc' = "idle"
    /\ loop_task' = 0
    /\ UNCHANGED <<redis, ever_terminal, webhook_url, loop_data, attempts,
                   next_id>>
    /\ UNCHANGED <<engine_vars, ws_vars>>
    /\ UNCHANGED <<now, wf_vars, conn_vars, tm_vars, notify_log, relay_log, escaped>>
    /\ UNCHANGED posting

\* The Redis command generate is about to issue raises RedisError. In
\* create_task (its EXPIRE) the error is logged and the Task returned; an
\* update method logs it and returns False, before its notification when the
\* command is the EXPIRE, and generate, which does not look at the return
\* value, goes on to its next statement. What an earlier command of the
\* method wrote stays.
GenerateStoreError ==
    /\ loop_pc \in {"create_expire", "prompt_id_read", "prompt_id_write",
                    "prompt_id_expire", "status_read", "status_write",
                    "status_expire", "failed_read", "failed_write",
                    "failed_expire"}
    /\ loop_data' = NoRecord
    /\ CASE loop_pc = "create_expire" ->
              /\ ResolveWorkflow(loop_task, loop_data.workflow_name,
                                 submitted[loop_task].modifications)
              /\ UNCHANGED <<response, loop_task>>
         [] loop_pc \in {"prompt_id_read", "prompt_id_write", "prompt_id_expire"} ->
              /\ loop_pc' = "status_read"
              /\ UNCHANGED <<response, loop_task, loaded, template, submitted>>
         [] loop_pc \in {"status_read", "status_write", "status_expire"} ->
              /\ response' = [response EXCEPT ![loop_task] = Queued]
              /\ loop_pc' = "idle"
              /\ loop_task' = 0
              /\ UNCHANGED <<loaded, template, submitted>>
         [] OTHER ->
              /\ response' = [response EXCEPT ![loop_task] =
                                  OuterExcept("404: not found")]
              /\ loop_pc' = "idle"
              /\ loop_task' = 0
              /\ UNCHANGED <<loaded, template, submitted>>
    /\ UNCHANGED <<redis, ever_terminal, webhook_url, loop_tasks, posting, attempts,
                   next_id>>
    /\ UNCHANGED <<engine_vars, ws_vars>>
    /\ UNCHANGED <<files, prompts, wf_ret>>
    /\ UNCHANGED <<now, conn_vars, tm_vars, notify_log, relay_log, escaped, expiry>>

\* --------------------------------------- event-loop thread: other handlers
\* A handler that answers 200 with status UNKNOWN for a task it cannot find.
get_task_status_lenient(task_id) ==
    IF hgetall(task_id) = NoRecord
    THEN [code |-> 200, task_id |-> task_id, status |-> UNKNOWN, progress |-> 0]
    ELSE [code |-> 200, task_id |-> task_id,
          status |-> from_redis_dict(hgetall(task_id)).status,
          progress |-> from_redis_dict(hgetall(task_id)).progress]

\* get_task_status: the reply to a request served in the current state (one
\* HGETALL; 404 when the task is not found). The handler writes nothing.
get_task_status(task_id) ==
    IF hgetall(task_id) = NoRecord
    THEN [code |-> 404, task_id |-> task_id, status |-> None, progress |-> 0]
    ELSE [code |-> 200, task_id |-> task_id,
          status |-> from_redis_dict(hgetall(task_id)).status,
          progress |-> from_redis_dict(hgetall(task_id)).progress]

\* How a webhook POST can end.
DeliveryOutcomes == {"delivered", "non_2xx", "network_error", "timeout"}

\* client.post: a response of any status code is returned; a network error
\* and a timeout raise.
PostRaises(outcome) ==
    CASE outcome = "network_error" -> "ConnectError"
      [] outcome = "timeout" -> "TimeoutException"
      [] OTHER -> None

\* NotifyCatches with a handler for timeouts only.
NotifyCatchesTimeout(e) == e = "TimeoutException"

\* _notify_proxy_server, except Exception: every exception of the body is
\* logged.
NotifyCatches(e) == TRUE

\* The line _notify_proxy_server logs once client.post is over.
NotifyLogs(outcome) ==
    CASE PostRaises(outcome) # None -> "Error sending webhook notification"
      [] outcome = "delivered" -> "Successfully sent webhook"
      [] OTHER -> "Webhook failed with status"

\* seq without its i-th element.
RemoveAt(seq, i) == SubSeq(seq, 1, i - 1) \o SubSeq(seq, i + 1, Len(seq))

\* _notify_proxy_server up to its await, run by the event loop once the
\* handler that scheduled it has returned. Without a webhook url it returns
\* at once and logs nothing. get_task: HGETALL, None for an empty hash and
\* for a RedisError; for a task that is not found one line is logged and
\* nothing is posted. Otherwise the POST is sent, and the coroutine gives
\* the loop back until the response is there.
NotifyProxyServer(read_ok) ==
    /\ loop_pc = "idle"
    /\ loop_tasks # <<>>
    /\ loop_tasks' = Tail(loop_tasks)
    /\ LET task_id == Head(loop_tasks).task_id
           task == IF read_ok THEN hgetall(task_id) ELSE NoRecord
       IN IF ~webhook_url
          THEN UNCHANGED <<attempts, posting, notify_log>>
          ELSE IF task = NoRecord
          THEN /\ notify_log' = "Cannot send webhook - task not found"
               /\ UNCHANGED <<attempts, posting>>
          ELSE /\ attempts' = [attempts EXCEPT ![task_id] = @ + 1]
               /\ posting' = Append(posting, Head(loop_tasks))
               /\ notify_log' = "Sending webhook"
    /\ UNCHANGED <<redis, ever_terminal, webhook_url, loop_pc, loop_task,
                   loop_data, response, next_id>>
    /\ UNCHANGED <<engine_vars, ws_vars>>
    /\ UNCHANGED <<now, wf_vars, conn_vars, tm_vars, relay_log, escaped, expiry>>

\* _notify_proxy_server after its await: client.post of the i-th POST under
\* way is over, once the event loop is free to resume the coroutine, and
\* its outcome is only logged.
NotifyResponse(i, outcome) ==
    /\ loop_pc = "idle"
    /\ i \in 1 .. Len(posting)
    /\ posting' = RemoveAt(posting, i)
    /\ escaped' = IF PostRaises(outcome) # None /\ ~NotifyCatches(PostRaises(outcome))
                  THEN escaped \cup {PostRaises(outcome)}
                  ELSE escaped
    /\ notify_log' = NotifyLogs(outcome)
    /\ UNCHANGED <<redis, ever_terminal, webhook_url, loop_pc, loop_task,
                   loop_data, response, loop_tasks, attempts, next_id>>
    /\ UNCHANGED <<engine_vars, ws_vars>>
    /\ UNCHANGED <<now, wf_vars, conn_vars, tm_vars, relay_log, expiry>>

\* ------------------------------------------------------------------ engine
\* A frame as _on_ws_message gets it. frame: "text" (a str that json.loads
\* accepts), "garbled" (a str that it rejects) or "bytes"; type: the value of
\* 'type', None without one; data: the 'data' key is there; keys: the keys
\* of data['data'] among value, max and node; prompt_id: None when
\* 'prompt_id' is missing, null or empty.
ProgressMessage(prompt_id, value, max) ==
    [frame |-> "text", type |-> "progress", data |-> TRUE,
     keys |-> {"value", "max", "node"},
     prompt_id |-> prompt_id, value |-> value, max |-> max, node |-> None]

ExecutingMessage(prompt_id, node) ==
    [frame |-> "text", type |-> "executing", data |-> TRUE,
     keys |-> {"node"},
     prompt_id |-> prompt_id, value |-> 0, max |-> 0, node |-> node]

StatusMessage ==
    [frame |-> "text", type |-> "status", data |-> TRUE, keys |-> {},
     prompt_id |-> None, value |-> 0, max |-> 0, node |-> None]

\* A message of a type the handler has no branch for.
OtherMessage ==
    [frame |-> "text", type |-> "execution_cached", data |-> TRUE,
     keys |-> {"node"},
     prompt_id |-> None, value |-> 0, max |-> 0, node |-> None]

\* msg without key k in its data.
Without(msg, k) == [msg EXCEPT !.keys = @ \ {k}]

\* A progress or executing message without its 'data' key.
NoDataMessage(type) ==
    [frame |-> "text", type |-> type, data |-> FALSE, keys |-> {},
     prompt_id |-> None, value |-> 0, max |-> 0, node |-> None]

\* Raw image bytes, and text that is not JSON.
BinaryFrame ==
    [frame |-> "bytes", type |-> None, data |-> FALSE, keys |-> {},
     prompt_id |-> None, value |-> 0, max |-> 0, node |-> None]

GarbledFrame ==
    [frame |-> "garbled", type |-> None, data |-> FALSE, keys |-> {},
     prompt_id |-> None, value |-> 0, max |-> 0, node |-> None]

\* (value, max) pairs of the progress messages the engine sends.
ProgressInputs == {<<29, 50>>, <<3, 2>>, <<1, 0>>}

\* A message leaves the engine: it reaches the socket of a connected client
\* and is lost otherwise.
Send(msg) ==
    /\ emitted < MaxEvents
    /\ emitted' = emitted + 1
    /\ IF is_connected
       THEN /\ Len(inbox) < MaxInbox
            /\ inbox' = Append(inbox, msg)
       ELSE inbox' = inbox

EngineProgress(t, vm) ==
    /\ engine[t] = "running"
    /\ Send(ProgressMessage(PromptOf(t), vm[1], vm[2]))
    /\ UNCHANGED <<redis, ever_terminal, webhook_url, engine, is_connected>>
    /\ UNCHANGED <<loop_vars, ws_vars>>
    /\ UNCHANGED <<now, wf_vars, conn_vars, tm_vars, notify_log, relay_log, escaped, expiry>>

EngineExecuting(t) ==
    /\ engine[t] = "running"
    /\ Send(ExecutingMessage(PromptOf(t), "node"))
    /\ UNCHANGED <<redis, ever_terminal, webhook_url, engine, is_connected>>
    /\ UNCHANGED <<loop_vars, ws_vars>>
    /\ UNCHANGED <<now, wf_vars, conn_vars, tm_vars, notify_log, relay_log, escaped, expiry>>

\* The job ends: its history entry exists from now on, and executing with
\* node null is sent.
EngineFinish(t) ==
    /\ engine[t] = "running"
    /\ engine' = [engine EXCEPT ![t] = "done"]
    /\ Send(ExecutingMessage(PromptOf(t), None))
    /\ UNCHANGED <<redis, ever_terminal, webhook_url, is_connected>>
    /\ UNCHANGED <<loop_vars, ws_vars>>
    /\ UNCHANGED <<now, wf_vars, conn_vars, tm_vars, notify_log, relay_log, escaped, expiry>>

\* A repeated executing message with node null for a finished job.
EngineRepeat(t) ==
    /\ engine[t] = "done"
    /\ Send(ExecutingMessage(PromptOf(t), None))
    /\ UNCHANGED <<redis, ever_terminal, webhook_url, engine, is_connected>>
    /\ UNCHANGED <<loop_vars, ws_vars>>
    /\ UNCHANGED <<now, wf_vars, conn_vars, tm_vars, notify_log, relay_log, escaped, expiry>>

EngineStatus ==
    /\ Send(StatusMessage)
    /\ UNCHANGED <<redis, ever_terminal, webhook_url, engine, is_connected>>
    /\ UNCHANGED <<loop_vars, ws_vars>>
    /\ UNCHANGED <<now, wf_vars, conn_vars, tm_vars, notify_log, relay_log, escaped, expiry>>

\* The frames a socket may deliver: the engine's messages, well-formed or
\* not, about jobs of tasks or about no job the store knows.
Frames ==
    {BinaryFrame, GarbledFrame, StatusMessage, OtherMessage,
     NoDataMessage("progress"), NoDataMessage("executing"),
     ProgressMessage(None, 29, 50), ExecutingMessage(None, None),
     ProgressMessage(PromptOf(1), 1, 0),
     Without(ProgressMessage(PromptOf(1), 29, 50), "value"),
     Without(ProgressMessage(PromptOf(1), 29, 50), "max"),
     Without(ExecutingMessage(PromptOf(1), None), "node")}
    \cup UNION {{ProgressMessage(j, 29, 50), ExecutingMessage(j, None),
                 ExecutingMessage(j, "node")} : j \in PromptIds}

\* run_forever reads a frame from the socket.
Receive(msg) ==
    /\ Send(msg)
    /\ UNCHANGED <<redis, ever_terminal, webhook_url, engine, is_connected>>
    /\ UNCHANGED <<loop_vars, ws_vars>>
    /\ UNCHANGED <<now, wf_vars, conn_vars, tm_vars, notify_log, relay_log, escaped, expiry>>

\* -------------------------------------------------------- websocket thread
\* _on_ws_open. run_forever calls it, and every other callback, on the
\* websocket thread; thread_pc is left to the caller.
OnWsOpen ==
    /\ is_connected' = TRUE
    /\ reconnect_delay' = 5 * DelayScale
    /\ ws_sent' = Append(ws_sent, Subscribe)
    /\ waits' = <<>>
    /\ UNCHANGED <<redis, ever_terminal, webhook_url, engine, emitted, inbox>>
    /\ UNCHANGED <<loop_vars, ws_vars>>
    /\ UNCHANGED reconnect_needed
    /\ UNCHANGED <<now, wf_vars, tm_vars, notify_log, relay_log, escaped, expiry>>

\* _on_ws_error
OnWsError ==
    /\ is_connected' = FALSE
    /\ UNCHANGED <<redis, ever_terminal, webhook_url, engine, emitted, inbox>>
    /\ UNCHANGED <<loop_vars, ws_vars>>
    /\ UNCHANGED <<reconnect_needed, reconnect_delay, ws_sent, waits>>
    /\ UNCHANGED <<now, wf_vars, tm_vars, notify_log, relay_log, escaped, expiry>>

\* OnWsClose without the request for a reconnect.
OnWsCloseUnflagged ==
    /\ is_connected' = FALSE
    /\ reconnect_needed' = reconnect_needed
    /\ inbox' = <<>>
    /\ ws_sent' = <<>>
    /\ UNCHANGED <<redis, ever_terminal, webhook_url, engine, emitted>>
    /\ UNCHANGED <<loop_vars, ws_vars>>
    /\ UNCHANGED <<reconnect_delay, waits>>
    /\ UNCHANGED <<now, wf_vars, tm_vars, notify_log, relay_log, escaped, expiry>>

\* _on_ws_close: self.ws.close() ends the socket, and what it still held is
\* gone.
OnWsClose ==
    /\ is_connected' = FALSE
    /\ reconnect_needed' = TRUE
    /\ inbox' = <<>>
    /\ ws_sent' = <<>>
    /\ UNCHANGED <<redis, ever_terminal, webhook_url, engine, emitted>>
    /\ UNCHANGED <<loop_vars, ws_vars>>
    /\ UNCHANGED <<reconnect_delay, waits>>
    /\ UNCHANGED <<now, wf_vars, tm_vars, notify_log, relay_log, escaped, expiry>>

\* --------------------------------------- websocket_thread: the reconnect loop
\* min(self.reconnect_delay, self.max_reconnect_delay)
SleepDelay ==
    IF reconnect_delay <= max_reconnect_delay THEN reconnect_delay
                                              ELSE max_reconnect_delay

\* NextDelay without the cap.
NextDelayUncapped(d) == (d * 3) \div 2

\* min(self.reconnect_delay * 1.5, self.max_reconnect_delay)
NextDelay(d) ==
    IF d * 3 >= max_reconnect_delay * 2 THEN max_reconnect_delay
                                        ELSE (d * 3) \div 2

\* time.sleep(delay) and the longer delay for the next attempt.
BackoffWait ==
    /\ waits' = Append(waits, SleepDelay)
    /\ reconnect_delay' = NextDelay(reconnect_delay)

conn_frame == <<redis, ever_terminal, webhook_url, loop_vars, engine, emitted,
                inbox, ws_vars, tm_vars, notify_log, relay_log, escaped, expiry,
                now, wf_vars>>

\* The top of the loop with reconnect_needed set (without it the thread
\* sleeps a second and looks again): a WebSocketApp is made and run_forever
\* entered, or making it raises and the except branch backs off.
Connect(raises) ==
    /\ thread_pc = "top"
    /\ reconnect_needed
    /\ IF raises
       THEN /\ Len(waits) < MaxWaits
            /\ BackoffWait
            /\ reconnect_needed' = TRUE
            /\ thread_pc' = "top"
       ELSE /\ reconnect_needed' = FALSE
            /\ thread_pc' = "connecting"
            /\ UNCHANGED <<reconnect_delay, waits>>
    /\ UNCHANGED <<is_connected, ws_sent>>
    /\ UNCHANGED conn_frame

\* run_forever: the handshake succeeds and on_open is called. run_forever
\* calls every callback on the websocket thread, one at a time.
HandshakeSucceeds ==
    /\ thread_pc = "connecting"
    /\ ws_pc = "idle"
    /\ OnWsOpen
    /\ thread_pc' = "open"

\* run_forever: the handshake fails, the open connection breaks, or no pong
\* answers a ping within ping_timeout. on_error is called, then the teardown.
ConnectionFails ==
    /\ thread_pc \in {"connecting", "open"}
    /\ ws_pc = "idle"
    /\ Len(waits) < MaxWaits
    /\ OnWsError
    /\ thread_pc' = "teardown"

\* run_forever: the teardown after an error, or the close of an open
\* connection by the engine. on_close is called and run_forever returns.
Teardown ==
    /\ thread_pc \in {"teardown", "open"}
    /\ ws_pc = "idle"
    /\ OnWsClose
    /\ thread_pc' = "returned"

\* After run_forever: the sleep and the backoff when reconnect_needed.
Backoff ==
    /\ thread_pc = "returned"
    /\ IF reconnect_needed THEN BackoffWait
                           ELSE UNCHANGED <<reconnect_delay, waits>>
    /\ thread_pc' = "top"
    /\ UNCHANGED <<is_connected, reconnect_needed, ws_sent>>
    /\ UNCHANGED conn_frame

\* queue_prompt called by a request while the loop runs.
QueuePromptCalled ==
    /\ ReconnectIfDisconnected
    /\ UNCHANGED <<is_connected, thread_pc, reconnect_delay, ws_sent, waits>>
    /\ UNCHANGED conn_frame

\* The (value, max) pairs with 0 <= value <= 2 * max <= 200 for which the
\* double (value / max) * 100 lies just below the exact quotient, so that
\* int() yields one less (29 / 50 * 100 is 57.99999999999999).
FloatShort ==
    {<<23, 20>>, <<29, 25>>, <<46, 40>>, <<29, 50>>, <<57, 50>>, <<58, 50>>,
     <<69, 60>>, <<87, 75>>, <<92, 80>>, <<29, 100>>, <<57, 100>>, <<58, 100>>,
     <<113, 100>>, <<114, 100>>, <<115, 100>>, <<116, 100>>}

\* int((value / max) * 100), for 0 <= value <= 2 * max <= 200.
ProgressPercent(value, max) ==
    IF <<value, max>> \in FloatShort
    THEN ((value * 100) \div max) - 1
    ELSE (value * 100) \div max

WsIdle ==
    /\ ws_pc' = "idle"
    /\ ws_msg' = None
    /\ ws_task' = 0
    /\ ws_keys' = <<>>
    /\ ws_data' = NoRecord
    /\ ws_progress' = 0
    /\ ws_result' = ""

\* RelayCatches with a handler for text that is not JSON only.
RelayCatchesJSONDecodeError(e) == e = "JSONDecodeError"

\* RelayCatches with a handler for malformed messages only.
RelayCatchesKeyError(e) == e = "KeyError"

\* _on_ws_message, except Exception: the handler logs every exception
\* raised in its body.
RelayCatches(e) == TRUE

\* The progress branch divides by max; it gets there once it has found the
\* task and read msg_data['value'] and msg_data['max'].
RaisesZeroDivision(msg) ==
    /\ msg.type = "progress"
    /\ msg.max = 0

\* ExecutionEnded for every executing message.
ExecutionEndedAlways(msg) == TRUE

\* if msg_data['node'] is None: the execution of the prompt is complete.
ExecutionEnded(msg) == msg.node = None

\* What the body of _on_ws_message raises for msg before it looks for the
\* task, None when nothing: json.loads, then data['data'] of a progress or
\* executing message.
RaisedBeforeLookup(msg) ==
    IF msg.frame = "bytes" THEN None
    ELSE IF msg.frame = "garbled" THEN "JSONDecodeError"
    ELSE IF msg.type \notin {"progress", "executing"} THEN None
    ELSE IF ~msg.data THEN "KeyError"
    ELSE None

\* The messages get_task_by_prompt_id is called for: progress and executing
\* with a prompt id.
LooksUpTask(msg) ==
    /\ msg.frame = "text"
    /\ msg.type \in {"progress", "executing"}
    /\ msg.data
    /\ msg.prompt_id # None

\* What the body raises for msg once the task is found, None when nothing:
\* msg_data['value'] / msg_data['max'], or msg_data['node'].
RaisedAfterLookup(msg) ==
    IF msg.type = "progress"
    THEN IF ~({"value", "max"} \subseteq msg.keys) THEN "KeyError"
         ELSE IF RaisesZeroDivision(msg) THEN "ZeroDivisionError"
         ELSE None
    ELSE IF "node" \notin msg.keys THEN "KeyError" ELSE None

\* except Exception of _on_ws_message, for e raised in the body (None when
\* nothing was): the exception is logged.
RelayExcept(e) ==
    /\ escaped' = IF e # None /\ ~RelayCatches(e) THEN escaped \cup {e}
                                                  ELSE escaped
    /\ relay_log' = IF e # None /\ RelayCatches(e)
                    THEN "Error processing WebSocket message: " \o e
                    ELSE relay_log

\* The keys that exist.
LiveKeys == {t \in Tasks : redis[t] # NoRecord}

\* KEYS task:* returns the existing keys in an order of the server's choice.
ScanOrders ==
    {order \in [1 .. Cardinality(LiveKeys) -> LiveKeys] :
        \A i, j \in 1 .. Cardinality(LiveKeys) : order[i] = order[j] => i = j}

\* Matches that accepts every hash that exists.
MatchesAnyHash(task_data, prompt_id) ==
    task_data # NoRecord

\* get_task_by_prompt_id: the test applied to the hash of a scanned key; the
\* hash of a key that is gone is empty and has no prompt_id field.
Matches(task_data, prompt_id) ==
    task_data # NoRecord /\ task_data.prompt_id = prompt_id

\* _on_ws_message, called by run_forever for a frame read from the open
\* socket, up to its first Redis command: the bytes check, json.loads, the
\* type dispatch, the prompt_id check, and KEYS task:* of
\* get_task_by_prompt_id, which returns None when no key exists. Whatever
\* the body raises the handler logs.
OnWsMessage ==
    /\ ws_pc = "idle"
    /\ thread_pc = "open"
    /\ inbox # <<>>
    /\ inbox' = Tail(inbox)
    /\ RelayExcept(RaisedBeforeLookup(Head(inbox)))
    /\ IF LooksUpTask(Head(inbox))
       THEN \E order \in ScanOrders :
              IF order = <<>>
              THEN WsIdle
              ELSE /\ ws_pc' = "scan"
                   /\ ws_msg' = Head(inbox)
                   /\ ws_keys' = order
                   /\ UNCHANGED <<ws_task, ws_data, ws_progress, ws_result>>
       ELSE WsIdle
    /\ UNCHANGED <<redis, ever_terminal, webhook_url, engine, emitted,
                   is_connected>>
    /\ UNCHANGED loop_vars
    /\ UNCHANGED <<now, wf_vars, conn_vars, tm_vars, notify_log, expiry>>

\* get_task_by_prompt_id called by the handler: HGETALL of the next scanned
\* key. The first hash whose prompt_id field equals the message's is the
\* task, and the handler goes on to the first store call of its branch: for
\* progress with the percentage, for executing with node null with the
\* history. With the keys used up there is no task and the handler returns.
LookupRead ==
    /\ ws_pc = "scan"
    /\ LET task_data == hgetall(Head(ws_keys))
           e == RaisedAfterLookup(ws_msg)
       IN IF Matches(task_data, ws_msg.prompt_id)
          THEN /\ RelayExcept(e)
               /\ IF e # None
                  THEN WsIdle
                  ELSE IF ws_msg.type = "progress"
                  THEN /\ ws_pc' = "progress_read"
                       /\ ws_task' = from_redis_dict(task_data).id
                       /\ ws_progress' = ProgressPercent(ws_msg.value, ws_msg.max)
                       /\ ws_keys' = <<>>
                       /\ UNCHANGED <<ws_msg, ws_data, ws_result>>
                  ELSE IF ExecutionEnded(ws_msg)
                  THEN /\ ws_pc' = "history"
                       /\ ws_task' = from_redis_dict(task_data).id
                       /\ ws_keys' = <<>>
                       /\ UNCHANGED <<ws_msg, ws_data, ws_progress, ws_result>>
                  ELSE WsIdle
          ELSE /\ UNCHANGED <<escaped, relay_log>>
               /\ IF Tail(ws_keys) = <<>>
                  THEN WsIdle
                  ELSE /\ ws_keys' = Tail(ws_keys)
                       /\ UNCHANGED <<ws_pc, ws_msg, ws_task, ws_data,
                                      ws_progress, ws_result>>
    /\ UNCHANGED <<redis, ever_terminal, webhook_url>>
    /\ UNCHANGED <<loop_vars, engine_vars>>
    /\ UNCHANGED <<now, wf_vars, conn_vars, tm_vars, notify_log, expiry>>

\* update_task_progress: HGETALL; from a hash that is not empty the method
\* builds the mapping it will write, with the time the clock shows now.
ProgressRead ==
    /\ ws_pc = "progress_read"
    /\ IF hgetall(ws_task) = NoRecord
       THEN WsIdle
       ELSE /\ ws_data' = ProgressMapping(hgetall(ws_task), ws_progress)
            /\ ws_pc' = "progress_write"
            /\ UNCHANGED <<ws_msg, ws_task, ws_keys, ws_progress, ws_result>>
    /\ UNCHANGED <<redis, ever_terminal, webhook_url>>
    /\ UNCHANGED <<loop_vars, engine_vars>>
    /\ UNCHANGED <<now, wf_vars, conn_vars, tm_vars, notify_log, relay_log, escaped, expiry>>

\* update_task_progress: HSET of the mapping built after the read.
ProgressWrite ==
    /\ ws_pc = "progress_write"
    /\ hset(ws_task, ws_data)
    /\ WsIdle
    /\ UNCHANGED webhook_url
    /\ UNCHANGED <<loop_vars, engine_vars>>
    /\ UNCHANGED <<now, wf_vars, conn_vars, tm_vars, notify_log, relay_log, escaped, expiry>>

\* HistoryHas for a history that holds every prompt.
HistoryHasAlways(prompt_id) == TRUE

\* The engine's history holds a prompt once its job has ended.
HistoryHas(prompt_id) ==
    \E t \in Tasks : PromptOf(t) = prompt_id /\ engine[t] = "done"

\* process_comfyui_images: the url of the descriptors it returns.
\*   S3 disabled, or the download failed: the engine's /view url is kept;
\*   uploaded: the S3 or CloudFront url;
\*   upload failed: upload_image's fallback, the local temporary path.
ProcessedUrl(s3) ==
    CASE s3 = "disabled" -> "view"
      [] s3 = "download_failed" -> "view"
      [] s3 = "uploaded" -> "s3"
      [] s3 = "upload_failed" -> "tmp"

S3Outcomes == {"disabled", "download_failed", "uploaded", "upload_failed"}

\* executing with node null: get_history, get_images, process_comfyui_images.
\* fetched: the GET /history call succeeded; images: the job has image
\* outputs and get_images could fetch them.
History(fetched, images, s3) ==
    /\ ws_pc = "history"
    /\ IF fetched /\ HistoryHas(ws_msg.prompt_id)
       THEN IF images
            THEN /\ ws_result' = ImagesResult(ProcessedUrl(s3))
                 /\ ws_pc' = "result_read"
                 /\ UNCHANGED <<ws_msg, ws_task, ws_keys, ws_data, ws_progress>>
            ELSE /\ ws_pc' = "completed_read"
                 /\ UNCHANGED <<ws_msg, ws_task, ws_keys, ws_data, ws_progress, ws_result>>
       ELSE WsIdle
    /\ UNCHANGED <<redis, ever_terminal, webhook_url>>
    /\ UNCHANGED <<loop_vars, engine_vars>>
    /\ UNCHANGED <<now, wf_vars, conn_vars, tm_vars, notify_log, relay_log, escaped, expiry>>

\* update_task_result: HGETALL; the hash that is not empty gets the result
\* and the time the clock shows now.
ResultRead ==
    /\ ws_pc = "result_read"
    /\ ws_data' = IF hgetall(ws_task) = NoRecord
                  THEN NoRecord
                  ELSE ResultMapping(hgetall(ws_task), ws_result)
    /\ ws_pc' = IF hgetall(ws_task) = NoRecord THEN "completed_read" ELSE "result_write"
    /\ UNCHANGED <<ws_msg, ws_task, ws_keys, ws_progress, ws_result>>
    /\ UNCHANGED <<redis, ever_terminal, webhook_url>>
    /\ UNCHANGED <<loop_vars, engine_vars>>
    /\ UNCHANGED <<now, wf_vars, conn_vars, tm_vars, notify_log, relay_log, escaped, expiry>>

\* update_task_result: HSET of the mapping built after the read.
ResultWrite ==
    /\ ws_pc = "result_write"
    /\ hset(ws_task, ws_data)
    /\ ws_pc' = "result_expire"
    /\ ws_data' = NoRecord
    /\ UNCHANGED <<ws_msg, ws_task, ws_keys, ws_progress, ws_result>>
    /\ UNCHANGED webhook_url
    /\ UNCHANGED <<loop_vars, engine_vars>>
    /\ UNCHANGED <<now, wf_vars, conn_vars, tm_vars, notify_log, relay_log, escaped, expiry>>

\* update_task_result: EXPIRE, and the method returns True.
ResultExpire ==
    /\ ws_pc = "result_expire"
    /\ expire(ws_task)
    /\ ws_pc' = "completed_read"
    /\ UNCHANGED <<ws_msg, ws_task, ws_keys, ws_data, ws_progress, ws_result>>
    /\ UNCHANGED <<redis, ever_terminal, webhook_url>>
    /\ UNCHANGED <<loop_vars, engine_vars>>
    /\ UNCHANGED <<now, wf_vars, conn_vars, tm_vars, notify_log, relay_log, escaped>>

\* update_task_status(COMPLETED): HGETALL; the hash that is not empty gets
\* the new status and the time the clock shows now.
CompletedRead ==
    /\ ws_pc = "completed_read"
    /\ IF hgetall(ws_task) = NoRecord
       THEN WsIdle
       ELSE /\ ws_data' = StatusMapping(hgetall(ws_task), COMPLETED, None)
            /\ ws_pc' = "completed_write"
            /\ UNCHANGED <<ws_msg, ws_task, ws_keys, ws_progress, ws_result>>
    /\ UNCHANGED <<redis, ever_terminal, webhook_url>>
    /\ UNCHANGED <<loop_vars, engine_vars>>
    /\ UNCHANGED <<now, wf_vars, conn_vars, tm_vars, notify_log, relay_log, escaped, expiry>>

\* update_task_status(COMPLETED): HSET of the mapping built after the read.
CompletedWrite ==
    /\ ws_pc = "completed_write"
    /\ hset(ws_task, ws_data)
    /\ ws_pc' = "completed_expire"
    /\ ws_data' = NoRecord
    /\ UNCHANGED <<ws_msg, ws_task, ws_keys, ws_progress, ws_result>>
    /\ UNCHANGED webhook_url
    /\ UNCHANGED <<loop_vars, engine_vars>>
    /\ UNCHANGED <<now, wf_vars, conn_vars, tm_vars, notify_log, relay_log, escaped, expiry>>

\* update_task_status(COMPLETED): EXPIRE. When ShouldNotify,
\* asyncio.create_task is then called on this thread, which runs no event
\* loop: it raises RuntimeError, nothing is scheduled, and the method
\* returns False after the write.
CompletedExpire ==
    /\ ws_pc = "completed_expire"
    /\ expire(ws_task)
    /\ WsIdle
    /\ UNCHANGED <<redis, ever_terminal, webhook_url>>
    /\ UNCHANGED <<loop_vars, engine_vars>>
    /\ UNCHANGED <<now, wf_vars, conn_vars, tm_vars, notify_log, relay_log, escaped>>

\* A Redis command of the TaskManager method the handler is in raises
\* redis.RedisError: get_task_by_prompt_id (its KEYS, or an HGETALL of its
\* scan) returns None, the update
\* methods return False, each after logging it, and the handler goes on as
\* it does after a missing task. What an earlier command of the method
\* wrote stays.
RelayStoreError ==
    /\ \/ /\ ws_pc = "idle"
          /\ thread_pc = "open"
          /\ inbox # <<>>
          /\ LooksUpTask(Head(inbox))
          /\ inbox' = Tail(inbox)
          /\ WsIdle
       \/ /\ ws_pc \in {"scan", "progress_read", "progress_write",
                         "completed_read", "completed_write",
                         "completed_expire"}
          /\ WsIdle
          /\ UNCHANGED inbox
       \/ /\ ws_pc \in {"result_read", "result_write", "result_expire"}
          /\ ws_pc' = "completed_read"
          /\ ws_data' = NoRecord
          /\ UNCHANGED <<ws_msg, ws_task, ws_keys, ws_progress, ws_result, inbox>>
    /\ UNCHANGED <<redis, ever_terminal, webhook_url, engine, emitted,
                   is_connected>>
    /\ UNCHANGED loop_vars
    /\ UNCHANGED <<now, wf_vars, conn_vars, tm_vars, notify_log, relay_log, escaped, expiry>>

\* ------------------------------------------- TaskManager and its one client
\* TaskManager's methods called one after the other by a client that may pass
\* any argument, while the clock advances. A step is one Redis command
\* with the computation that follows it, so the step of an HGETALL builds
\* the mapping, timestamp included, that the HSET after it writes; each
\* command may raise redis.RedisError.
relay_frame == <<webhook_url, loop_pc, loop_task, loop_data, response,
                 engine_vars, ws_vars, escaped, notify_log, relay_log,
                 conn_vars, wf_vars>>

notify_frame == <<loop_tasks, posting, attempts>>

\* The clock advances by one tick: a key whose lifetime ends is deleted, a
\* key without expiry stays.
Tick ==
    /\ now < MaxNow
    /\ expiry' = [t \in Tasks |-> IF expiry[t] > 0 THEN expiry[t] - 1 ELSE 0]
    /\ redis' = [t \in Tasks |-> IF expiry[t] = 1 THEN NoRecord ELSE redis[t]]
    /\ now' = now + 1
    /\ UNCHANGED <<ever_terminal, next_id, tm_vars>>
    /\ UNCHANGED <<relay_frame, notify_frame>>

\* create_task: the Task is built with the time of the clock and its mapping
\* written with HSET; a RedisError is logged and the Task is returned all
\* the same. The call holds the Task while its EXPIRE is outstanding.
create_task(workflow_name, hset_ok) ==
    /\ tm = NoCall
    /\ calls < MaxCalls
    /\ next_id <= MaxTasks
    /\ calls' = calls + 1
    /\ next_id' = next_id + 1
    /\ IF hset_ok
       THEN /\ hset(next_id, to_redis_dict(NewTask(next_id, workflow_name)))
            /\ tm' = [Call("create_task", "expire", next_id, 0, None, None, None)
                        EXCEPT !.data = NewTask(next_id, workflow_name)]
            /\ UNCHANGED tm_ret
       ELSE /\ UNCHANGED <<redis, ever_terminal>>
            /\ tm' = NoCall
            /\ tm_ret' = Return("create_task", next_id, TRUE,
                                NewTask(next_id, workflow_name), TRUE)
    /\ UNCHANGED <<now, expiry, relay_frame, notify_frame>>

\* create_task: EXPIRE of the new key; a RedisError is logged and the Task is
\* returned all the same.
create_task_expire(expire_ok) ==
    /\ tm.op = "create_task"
    /\ tm.pc = "expire"
    /\ IF expire_ok THEN expire(tm.task_id) ELSE UNCHANGED expiry
    /\ tm' = NoCall
    /\ tm_ret' = Return("create_task", tm.task_id, TRUE, tm.data, ~expire_ok)
    /\ UNCHANGED <<redis, ever_terminal, next_id, calls>>
    /\ UNCHANGED <<now, relay_frame, notify_frame>>

\* The mapping an update method builds from the hash it has read, before
\* its HSET: the hash (or the Task parsed from it) with the field of the
\* method replaced and updated_at set to datetime.now().
UpdateMapping(call, task_data) ==
    CASE call.op = "update_task_progress" ->
           ProgressMapping(task_data, call.progress)
      [] call.op = "update_task_status" ->
           StatusMapping(task_data, call.status, call.result)
      [] call.op = "update_task_result" -> ResultMapping(task_data, call.result)
      [] call.op = "update_prompt_id" -> PromptIdMapping(task_data, call.prompt_id)
      [] call.op = "update_task_parameters" -> ParametersMapping(task_data)

\* An update method that reports success for a hash that is empty.
ReadForUpdateTruthy(call, read_ok) ==
    /\ calls < MaxCalls
    /\ calls' = calls + 1
    /\ IF read_ok /\ hgetall(call.task_id) # NoRecord
       THEN /\ tm' = [call EXCEPT !.pc = "write",
                                   !.data = UpdateMapping(call, hgetall(call.task_id))]
            /\ UNCHANGED tm_ret
       ELSE /\ tm' = NoCall
            /\ tm_ret' = Return(call.op, call.task_id, read_ok, NoRecord, ~read_ok)
    /\ UNCHANGED <<redis, ever_terminal, expiry, next_id>>
    /\ UNCHANGED <<now, relay_frame, notify_frame>>

\* The HGETALL that opens every update method: the method returns False when
\* the command raises or the hash is empty; otherwise it builds its mapping
\* and goes on to its write.
ReadForUpdate(call, read_ok) ==
    /\ calls < MaxCalls
    /\ calls' = calls + 1
    /\ IF read_ok /\ hgetall(call.task_id) # NoRecord
       THEN /\ tm' = [call EXCEPT !.pc = "write",
                                   !.data = UpdateMapping(call, hgetall(call.task_id))]
            /\ UNCHANGED tm_ret
       ELSE /\ tm' = NoCall
            /\ tm_ret' = Return(call.op, call.task_id, FALSE, NoRecord, ~read_ok)
    /\ UNCHANGED <<redis, ever_terminal, expiry, next_id>>
    /\ UNCHANGED <<now, relay_frame, notify_frame>>

\* The HSET of an update method that goes on to EXPIRE, of the mapping built
\* after the read: a command that raises ends the method with the return
\* value False.
WriteThenExpire(hset_ok) ==
    /\ tm.pc = "write"
    /\ IF hset_ok
       THEN /\ hset(tm.task_id, tm.data)
            /\ tm' = [tm EXCEPT !.pc = "expire", !.data = NoRecord]
            /\ UNCHANGED tm_ret
       ELSE /\ UNCHANGED <<redis, ever_terminal>>
            /\ tm' = NoCall
            /\ tm_ret' = Return(tm.op, tm.task_id, FALSE, NoRecord, TRUE)
    /\ UNCHANGED <<expiry, next_id, calls>>
    /\ UNCHANGED <<now, relay_frame, notify_frame>>

\* The EXPIRE that ends update_task_result, update_prompt_id and
\* update_task_parameters: True when it went through, False when it raised.
ExpireAndReturn(expire_ok) ==
    /\ tm.pc = "expire"
    /\ IF expire_ok THEN expire(tm.task_id) ELSE UNCHANGED expiry
    /\ tm' = NoCall
    /\ tm_ret' = Return(tm.op, tm.task_id, expire_ok, NoRecord, ~expire_ok)
    /\ UNCHANGED <<redis, ever_terminal, next_id, calls>>
    /\ UNCHANGED <<now, relay_frame, notify_frame>>

\* The progress values the client passes.
ProgressArgs == {0 - 5, 50, 150}

update_task_progress_read(task_id, progress, read_ok) ==
    /\ tm = NoCall
    /\ ReadForUpdate(Call("update_task_progress", "read", task_id, progress,
                          None, None, None), read_ok)

\* update_task_progress: HSET of the mapping built after the read; the
\* method ends there.
update_task_progress_write(hset_ok) ==
    /\ tm.op = "update_task_progress"
    /\ tm.pc = "write"
    /\ IF hset_ok
       THEN hset(tm.task_id, tm.data)
       ELSE UNCHANGED <<redis, ever_terminal>>
    /\ tm' = NoCall
    /\ tm_ret' = Return(tm.op, tm.task_id, hset_ok, NoRecord, ~hset_ok)
    /\ UNCHANGED <<expiry, next_id, calls>>
    /\ UNCHANGED <<now, relay_frame, notify_frame>>

\* The (status, result) pairs update_task_status is called with.
StatusArgs ==
    {<<PROCESSING, None>>, <<COMPLETED, None>>, <<FAILED, NotFoundResult>>}

update_task_status_read(task_id, sr, read_ok) ==
    /\ tm = NoCall
    /\ ReadForUpdate(Call("update_task_status", "read", task_id, 0, sr[1], sr[2],
                          None), read_ok)

\* update_task_status: HSET.
update_task_status_write(hset_ok) ==
    /\ tm.op = "update_task_status"
    /\ WriteThenExpire(hset_ok)

\* update_task_status: EXPIRE, then asyncio.create_task when ShouldNotify:
\* it schedules the notification on a thread that runs the event loop and
\* raises RuntimeError on any other, which except Exception turns into the
\* return value False. An EXPIRE that raises ends the method before it.
update_task_status_expire(expire_ok, on_loop) ==
    /\ tm.op = "update_task_status"
    /\ tm.pc = "expire"
    /\ IF expire_ok THEN expire(tm.task_id) ELSE UNCHANGED expiry
    /\ loop_tasks' = IF expire_ok /\ ShouldNotify(tm.status) /\ on_loop
                     THEN Append(loop_tasks, [task_id |-> tm.task_id,
                                              status |-> tm.status])
                     ELSE loop_tasks
    /\ tm_ret' = Return(tm.op, tm.task_id,
                        expire_ok /\ (ShouldNotify(tm.status) => on_loop),
                        NoRecord, ~expire_ok)
    /\ tm' = NoCall
    /\ UNCHANGED <<redis, ever_terminal, attempts, next_id, calls>>
    /\ UNCHANGED <<now, relay_frame>>
    /\ UNCHANGED posting

update_task_result_read(task_id, result, read_ok) ==
    /\ tm = NoCall
    /\ ReadForUpdate(Call("update_task_result", "read", task_id, 0, None, result,
                          None), read_ok)

\* update_task_result: HSET.
update_task_result_write(hset_ok) ==
    /\ tm.op = "update_task_result"
    /\ WriteThenExpire(hset_ok)

\* update_task_result: EXPIRE.
update_task_result_expire(expire_ok) ==
    /\ tm.op = "update_task_result"
    /\ ExpireAndReturn(expire_ok)

update_prompt_id_read(task_id, prompt_id, read_ok) ==
    /\ tm = NoCall
    /\ ReadForUpdate(Call("update_prompt_id", "read", task_id, 0, None, None,
                          prompt_id), read_ok)

\* update_prompt_id: HSET.
update_prompt_id_write(hset_ok) ==
    /\ tm.op = "update_prompt_id"
    /\ WriteThenExpire(hset_ok)

\* update_prompt_id: EXPIRE.
update_prompt_id_expire(expire_ok) ==
    /\ tm.op = "update_prompt_id"
    /\ ExpireAndReturn(expire_ok)

update_task_parameters_read(task_id, read_ok) ==
    /\ tm = NoCall
    /\ ReadForUpdate(Call("update_task_parameters", "read", task_id, 0, None, None,
                          None), read_ok)

\* update_task_parameters: HSET.
update_task_parameters_write(hset_ok) ==
    /\ tm.op = "update_task_parameters"
    /\ WriteThenExpire(hset_ok)

\* update_task_parameters: EXPIRE.
update_task_parameters_expire(expire_ok) ==
    /\ tm.op = "update_task_parameters"
    /\ ExpireAndReturn(expire_ok)

\* get_task: HGETALL; None for an empty hash and for a RedisError.
get_task(task_id, read_ok) ==
    /\ tm = NoCall
    /\ calls < MaxCalls
    /\ calls' = calls + 1
    /\ tm' = NoCall
    /\ tm_ret' = IF read_ok /\ hgetall(task_id) # NoRecord
                 THEN Return("get_task", task_id, TRUE,
                             from_redis_dict(hgetall(task_id)), FALSE)
                 ELSE Return("get_task", task_id, FALSE, NoRecord, ~read_ok)
    /\ UNCHANGED <<redis, ever_terminal, expiry, next_id>>
    /\ UNCHANGED <<now, relay_frame, notify_frame>>

\* GET /tasks/{task_id}: get_task_status around get_task. A RedisError of
\* the HGETALL makes get_task return None, which the handler answers like a
\* task that is not found.
GetTaskStatus(task_id, read_ok) ==
    /\ tm = NoCall
    /\ calls < MaxCalls
    /\ calls' = calls + 1
    /\ tm' = NoCall
    /\ tm_ret' = Return("get_task_status", task_id,
                        read_ok /\ hgetall(task_id) # NoRecord, NoRecord, ~read_ok)
    /\ response' = [response EXCEPT ![task_id] =
                        IF read_ok
                        THEN get_task_status(task_id)
                        ELSE [get_task_status(task_id) EXCEPT
                                 !.code = 404, !.status = None, !.progress = 0]]
    /\ UNCHANGED <<redis, ever_terminal, expiry, next_id, now>>
    /\ UNCHANGED <<webhook_url, loop_pc, loop_task, loop_data>>
    /\ UNCHANGED <<engine_vars, ws_vars, escaped, notify_log, relay_log>>
    /\ UNCHANGED <<conn_vars, wf_vars, notify_frame>>

\* get_task_by_prompt_id: KEYS task:*.
get_task_by_prompt_id_keys(prompt_id, keys_ok) ==
    /\ tm = NoCall
    /\ calls < MaxCalls
    /\ calls' = calls + 1
    /\ IF keys_ok /\ LiveKeys # {}
       THEN /\ \E order \in ScanOrders :
                 tm' = [Call("get_task_by_prompt_id", "scan", 0, 0, None, None,
                             prompt_id) EXCEPT !.keys = order]
            /\ UNCHANGED tm_ret
       ELSE /\ tm' = NoCall
            /\ tm_ret' = Return("get_task_by_prompt_id", 0, FALSE, NoRecord, ~keys_ok)
    /\ UNCHANGED <<redis, ever_terminal, expiry, next_id>>
    /\ UNCHANGED <<now, relay_frame, notify_frame>>

\* get_task_by_prompt_id: HGETALL of the next scanned key; the first hash
\* whose prompt_id field equals the argument is returned as a Task, and None
\* once the keys are used up.
get_task_by_prompt_id_read(read_ok) ==
    /\ tm.op = "get_task_by_prompt_id"
    /\ tm.pc = "scan"
    /\ LET task_data == hgetall(Head(tm.keys))
       IN IF ~read_ok
          THEN /\ tm' = NoCall
               /\ tm_ret' = Return(tm.op, 0, FALSE, NoRecord, TRUE)
          ELSE IF Matches(task_data, tm.prompt_id)
          THEN /\ tm' = NoCall
               /\ tm_ret' = Return(tm.op, 0, TRUE, from_redis_dict(task_data), FALSE)
          ELSE IF Tail(tm.keys) = <<>>
          THEN /\ tm' = NoCall
               /\ tm_ret' = Return(tm.op, 0, FALSE, NoRecord, FALSE)
          ELSE /\ tm' = [tm EXCEPT !.keys = Tail(tm.keys)]
               /\ UNCHANGED tm_ret
    /\ UNCHANGED <<redis, ever_terminal, expiry, next_id, calls>>
    /\ UNCHANGED <<now, relay_frame, notify_frame>>

\* ------------------------------------------------------------ specification
\* generate for a request without modifications, Redis answering every
\* command.
RequestStep ==
    \/ \E w \in WorkflowNames : Generate(w, <<>>)
    \/ CreateTaskExpire
    \/ QueuePromptEnter
    \/ \E a \in BOOLEAN : QueuePrompt(a)
    \/ UpdatePromptIdRead
    \/ UpdatePromptIdWrite
    \/ UpdatePromptIdExpire
    \/ UpdateStatusRead
    \/ UpdateStatusWrite
    \/ UpdateStatusExpire
    \/ FailedRead
    \/ FailedWrite
    \/ FailedExpire

\* The event-loop thread, Redis answering every command: the requests and
\* the notifications.
LoopStep ==
    \/ RequestStep
    \/ NotifyProxyServer(TRUE)
    \/ \E i \in 1 .. Len(posting), o \in DeliveryOutcomes : NotifyResponse(i, o)

\* _on_ws_message, Redis answering every command, with the S3 transfer
\* ending in one of outcomes.
MessageStep(outcomes) ==
    \/ OnWsMessage
    \/ LookupRead
    \/ ProgressRead
    \/ ProgressWrite
    \/ \E f \in BOOLEAN, i \in BOOLEAN, s3 \in outcomes : History(f, i, s3)
    \/ ResultRead
    \/ ResultWrite
    \/ ResultExpire
    \/ CompletedRead
    \/ CompletedWrite
    \/ CompletedExpire

\* The messages of the engine.
EngineStep ==
    \/ \E t \in Tasks, vm \in ProgressInputs : EngineProgress(t, vm)
    \/ \E t \in Tasks : EngineExecuting(t)
    \/ \E t \in Tasks : EngineFinish(t)
    \/ \E t \in Tasks : EngineRepeat(t)
    \/ EngineStatus

\* The websocket thread's own steps and those run_forever takes for the
\* network.
ConnectionStep ==
    \/ \E r \in BOOLEAN : Connect(r)
    \/ HandshakeSucceeds
    \/ ConnectionFails
    \/ Teardown
    \/ Backoff

Next ==
    \/ LoopStep
    \/ MessageStep(S3Outcomes)
    \/ EngineStep
    \/ ConnectionStep

Spec == Init /\ [][Next]_vars

\* The two threads while the connection stays up and the engine reports
\* the progress and the end of every job.
ServeNext ==
    \/ LoopStep
    \/ MessageStep({"disabled"})
    \/ \E t \in Tasks : EngineProgress(t, <<29, 50>>)
    \/ \E t \in Tasks : EngineFinish(t)
    \/ \E t \in Tasks : EngineRepeat(t)

ServeSpec == ServeInit /\ [][ServeNext]_vars

\* TaskManager by itself, from the empty store: the calls of its client,
\* on the event-loop thread or not, each Redis command answered or
\* failing, the notifications they schedule, and the clock.
StoreNext ==
    \/ Tick
    \/ \E w \in workflows, h \in BOOLEAN : create_task(w, h)
    \/ \E e \in BOOLEAN : create_task_expire(e)
    \/ \E t \in Tasks, p \in ProgressArgs, r \in BOOLEAN :
         update_task_progress_read(t, p, r)
    \/ \E h \in BOOLEAN : update_task_progress_write(h)
    \/ \E t \in Tasks, sr \in StatusArgs, r \in BOOLEAN :
         update_task_status_read(t, sr, r)
    \/ \E h \in BOOLEAN : update_task_status_write(h)
    \/ \E e \in BOOLEAN, l \in BOOLEAN : update_task_status_expire(e, l)
    \/ \E t \in Tasks, r \in BOOLEAN :
         update_task_result_read(t, ImagesResult("view"), r)
    \/ \E h \in BOOLEAN : update_task_result_write(h)
    \/ \E e \in BOOLEAN : update_task_result_expire(e)
    \/ \E t \in Tasks, j \in PromptIds, r \in BOOLEAN : update_prompt_id_read(t, j, r)
    \/ \E h \in BOOLEAN : update_prompt_id_write(h)
    \/ \E e \in BOOLEAN : update_prompt_id_expire(e)
    \/ \E t \in Tasks, r \in BOOLEAN : update_task_parameters_read(t, r)
    \/ \E h \in BOOLEAN : update_task_parameters_write(h)
    \/ \E e \in BOOLEAN : update_task_parameters_expire(e)
    \/ \E t \in Tasks, r \in BOOLEAN : get_task(t, r)
    \/ \E t \in Tasks, r \in BOOLEAN : GetTaskStatus(t, r)
    \/ \E j \in PromptIds, k \in BOOLEAN : get_task_by_prompt_id_keys(j, k)
    \/ \E r \in BOOLEAN : get_task_by_prompt_id_read(r)
    \/ \E r \in BOOLEAN : NotifyProxyServer(r)
    \/ \E i \in 1 .. Len(posting), o \in DeliveryOutcomes : NotifyResponse(i, o)

StoreSpec == Init /\ [][StoreNext]_vars

\* A call of the store's client on the event-loop thread: a handler of
\* the service calls a method of TaskManager, with any argument.
LoopCallStep ==
    \/ \E w \in workflows, h \in BOOLEAN : create_task(w, h)
    \/ \E e \in BOOLEAN : create_task_expire(e)
    \/ \E t \in Tasks, p \in ProgressArgs, r \in BOOLEAN :
         update_task_progress_read(t, p, r)
    \/ \E h \in BOOLEAN : update_task_progress_write(h)
    \/ \E t \in Tasks, sr \in StatusArgs, r \in BOOLEAN :
         update_task_status_read(t, sr, r)
    \/ \E h \in BOOLEAN : update_task_status_write(h)
    \/ \E e \in BOOLEAN : update_task_status_expire(e, TRUE)
    \/ \E t \in Tasks, r \in BOOLEAN :
         update_task_result_read(t, ImagesResult("view"), r)
    \/ \E h \in BOOLEAN : update_task_result_write(h)
    \/ \E e \in BOOLEAN : update_task_result_expire(e)
    \/ \E t \in Tasks, j \in PromptIds, r \in BOOLEAN : update_prompt_id_read(t, j, r)
    \/ \E h \in BOOLEAN : update_prompt_id_write(h)
    \/ \E e \in BOOLEAN : update_prompt_id_expire(e)
    \/ \E t \in Tasks, r \in BOOLEAN : update_task_parameters_read(t, r)
    \/ \E h \in BOOLEAN : update_task_parameters_write(h)
    \/ \E e \in BOOLEAN : update_task_parameters_expire(e)
    \/ \E t \in Tasks, r \in BOOLEAN : get_task(t, r)
    \/ \E t \in Tasks, r \in BOOLEAN : GetTaskStatus(t, r)
    \/ \E j \in PromptIds, k \in BOOLEAN : get_task_by_prompt_id_keys(j, k)
    \/ \E r \in BOOLEAN : get_task_by_prompt_id_read(r)

\* The event-loop thread and the clock. The thread runs one handler or
\* coroutine at a time, up to its return or its await: a request (generate
\* has no await) or a call of the store's client. The notifications they
\* schedule stay scheduled.
LoopNext ==
    \/ Tick
    \/ tm = NoCall /\ RequestStep
    \/ loop_pc = "idle" /\ LoopCallStep

LoopSpec == Init /\ [][LoopNext]_vars

\* update_task_status called on the event-loop thread by a handler of the
\* service, with any argument.
StatusCallStep ==
    \/ \E t \in Tasks, sr \in StatusArgs, r \in BOOLEAN :
         update_task_status_read(t, sr, r)
    \/ \E h \in BOOLEAN : update_task_status_write(h)
    \/ \E e \in BOOLEAN : update_task_status_expire(e, TRUE)

\* The notifications next to what schedules them: the requests and the
\* status updates of the event-loop thread, one handler or coroutine at a
\* time up to its return or its await, while the clock advances.
NotifyNext ==
    \/ Tick
    \/ tm = NoCall /\ RequestStep
    \/ loop_pc = "idle" /\ StatusCallStep
    \/ tm = NoCall /\ \E r \in BOOLEAN : NotifyProxyServer(r)
    \/ tm = NoCall /\ \E i \in 1 .. Len(posting), o \in DeliveryOutcomes :
                         NotifyResponse(i, o)

NotifySpec == Init /\ [][NotifyNext]_vars

\* ----------------------------------------------- the workflow package
wf_frame == <<redis, ever_terminal, expiry, next_id, now, tm_vars, notify_frame,
              webhook_url, loop_pc, loop_task, loop_data, response,
              engine_vars, ws_vars, escaped, notify_log, relay_log, conn_vars>>

\* A template file is added to the workflows directory of the service.
AddFile(name) ==
    /\ name \notin files
    /\ files' = files \cup {name}
    /\ UNCHANGED <<loaded, template, submitted, prompts, wf_ret>>
    /\ UNCHANGED wf_frame

\* WorkflowRegistry.load_workflows of the service, called by itself: the
\* registry is cleared and an executor is made from each file.
load_workflows ==
    /\ loaded' = files
    /\ template' = LoadWorkflows
    /\ wf_ret' = WorkflowReturn("load_workflows", "none", FALSE, TRUE, None,
                                NoPayload)
    /\ UNCHANGED <<files, submitted, prompts>>
    /\ UNCHANGED wf_frame

\* WorkflowRegistry.get_workflow of the service: reload when the name is
\* not held, WorkflowNotFoundError when it is not held after that either,
\* the executor held otherwise.
get_workflow(name) ==
    /\ loaded' = LoadedAfter(name)
    /\ template' = TemplateAfter(name)
    /\ wf_ret' = IF Found(name)
                 THEN WorkflowReturn("get_workflow", name, name \in files, TRUE,
                                     None, TemplateAfter(name)[name])
                 ELSE WorkflowReturn("get_workflow", name, name \in files, TRUE,
                                     "WorkflowNotFoundError", NoPayload)
    /\ UNCHANGED <<files, submitted, prompts>>
    /\ UNCHANGED wf_frame

\* update_workflow called on the executor the registry holds for name.
UpdateWorkflow(name, mods) ==
    /\ name \in loaded
    /\ template' = [template EXCEPT ![name] = NodesAfterUpdate(@, mods)]
    /\ wf_ret' = WorkflowReturn("update_workflow", name, name \in files, TRUE,
                                None, update_workflow(template[name], mods))
    /\ UNCHANGED <<files, loaded, submitted, prompts>>
    /\ UNCHANGED wf_frame

\* modify_node called on the executor the registry holds for name, with
\* the node id and the update of m: ValueError when no node has the id;
\* otherwise the widget search and assignment of update_workflow on the
\* node, and None is returned.
modify_node(name, m) ==
    /\ name \in loaded
    /\ template' = IF HasNode(m.node)
                   THEN [template EXCEPT ![name] = ModifyNode(@, m)]
                   ELSE template
    /\ wf_ret' = WorkflowReturn("modify_node", name, name \in files, TRUE,
                                IF HasNode(m.node) THEN None ELSE "ValueError",
                                NoPayload)
    /\ UNCHANGED <<files, loaded, submitted, prompts>>
    /\ UNCHANGED wf_frame

\* execute called on the executor the registry holds for name:
\* update_workflow, then _queue_prompt POSTs what it returned to /prompt of
\* the engine and None is returned. reached: the request got to the engine;
\* when it did not, urlopen raises URLError, after the template was
\* modified.
execute(name, mods, reached) ==
    /\ name \in loaded
    /\ Len(prompts) < MaxPrompts
    /\ template' = [template EXCEPT ![name] = NodesAfterUpdate(@, mods)]
    /\ prompts' = IF reached
                  THEN Append(prompts, update_workflow(template[name], mods))
                  ELSE prompts
    /\ wf_ret' = WorkflowReturn("execute", name, name \in files, TRUE,
                                IF reached THEN None ELSE "URLError",
                                NoPayload)
    /\ UNCHANGED <<files, loaded, submitted>>
    /\ UNCHANGED wf_frame

\* WorkflowExecutor(path) of src/backend: WorkflowNotFoundError for a path
\* that does not exist; for one that does, _load_workflow raises
\* WorkflowValidationError when the file does not hold JSON, and when it
\* does, self.normalize_nodes() is called, an attribute the class does not
\* have.
WorkflowExecutorRaises(exists, is_json) ==
    IF ~exists THEN "WorkflowNotFoundError"
    ELSE IF ~is_json THEN "WorkflowValidationError"
    ELSE "AttributeError"

WorkflowExecutorInit(name, exists, is_json) ==
    /\ wf_ret' = WorkflowReturn("WorkflowExecutor", name, exists,
                                exists => is_json,
                                WorkflowExecutorRaises(exists, is_json),
                                NoPayload)
    /\ UNCHANGED <<files, loaded, template, submitted, prompts>>
    /\ UNCHANGED wf_frame

\* WorkflowRegistry.load_workflows of src/backend, on a registry over a
\* directory that has template files for the names in dir: the registry is
\* cleared and the constructor raises at the first file of the glob, which
\* holds JSON or does not; with no file, None is returned.
backend_load_workflows(dir, is_json) ==
    /\ wf_ret' = WorkflowReturn("backend_load_workflows", "none", FALSE,
                                dir # {} => is_json,
                                IF dir # {}
                                THEN WorkflowExecutorRaises(TRUE, is_json)
                                ELSE None,
                                NoPayload)
    /\ UNCHANGED <<files, loaded, template, submitted, prompts>>
    /\ UNCHANGED wf_frame

\* WorkflowRegistry.get_workflow of src/backend, on a registry over a
\* directory that has template files for the names in dir. The registry
\* holds no executor (none can be made): it reloads, which raises at the
\* first file, and with no file at all self.workflows[name] raises.
backend_get_workflow(name, dir, is_json) ==
    /\ wf_ret' = WorkflowReturn("backend_get_workflow", name, name \in dir,
                                dir # {} => is_json,
                                IF dir # {}
                                THEN WorkflowExecutorRaises(TRUE, is_json)
                                ELSE "KeyError",
                                NoPayload)
    /\ UNCHANGED <<files, loaded, template, submitted, prompts>>
    /\ UNCHANGED wf_frame

WorkflowNext ==
    \/ \E n \in WorkflowNames : AddFile(n)
    \/ load_workflows
    \/ \E n \in WorkflowNames : get_workflow(n)
    \/ \E n \in WorkflowNames, m \in Modifications : UpdateWorkflow(n, m)
    \/ \E n \in WorkflowNames, m \in NodeUpdates : modify_node(n, m)
    \/ \E n \in WorkflowNames, m \in Modifications, r \in BOOLEAN :
         execute(n, m, r)
    \/ \E n \in WorkflowNames, e \in BOOLEAN, j \in BOOLEAN :
         WorkflowExecutorInit(n, e, j)
    \/ \E d \in SUBSET WorkflowNames, j \in BOOLEAN :
         backend_load_workflows(d, j)
    \/ \E n \in WorkflowNames, d \in SUBSET WorkflowNames, j \in BOOLEAN :
         backend_get_workflow(n, d, j)

WorkflowSpec == Init /\ [][WorkflowNext]_vars

\* generate by itself: requests with any modifications, served one after
\* the other over a store whose commands can fail, and the notifications
\* they schedule.
SubmitNext ==
    \/ \E w \in WorkflowNames, m \in Modifications : Generate(w, m)
    \/ CreateTaskExpire
    \/ \E w \in WorkflowNames, m \in Modifications : GenerateCreateError(w, m)
    \/ QueuePromptEnter
    \/ \E a \in BOOLEAN : QueuePrompt(a)
    \/ UpdatePromptIdRead
    \/ UpdatePromptIdWrite
    \/ UpdatePromptIdExpire
    \/ UpdateStatusRead
    \/ UpdateStatusWrite
    \/ UpdateStatusExpire
    \/ FailedRead
    \/ FailedWrite
    \/ FailedExpire
    \/ GenerateStoreError
    \/ Tick
    \/ \E r \in BOOLEAN : NotifyProxyServer(r)
    \/ \E i \in 1 .. Len(posting), o \in DeliveryOutcomes : NotifyResponse(i, o)

SubmitSpec == Init /\ [][SubmitNext]_vars

\* The steps of the websocket thread inside _on_ws_message.
HandlerStep ==
    \/ MessageStep({"disabled"})
    \/ RelayStoreError

\* The relay next to the requests: any frame may arrive on the open
\* socket, the jobs of the engine end, Redis commands of the handler may
\* fail, and the clock advances.
RelayNext ==
    \/ RequestStep
    \/ Tick
    \/ \E m \in Frames : Receive(m)
    \/ \E t \in Tasks : EngineFinish(t)
    \/ HandlerStep

\* The service in use with a webhook URL in its settings, so that a
\* terminal status write goes on to schedule a notification.
WebhookInit == ServeInit /\ webhook_url

RelaySpec == WebhookInit /\ [][RelayNext]_vars

\* The reconnect loop of a client whose store holds no task, and the frames
\* it is sent.
ConnNext ==
    \/ \E m \in Frames : Receive(m)
    \/ OnWsMessage
    \/ \E r \in BOOLEAN : Connect(r)
    \/ HandshakeSucceeds
    \/ ConnectionFails
    \/ Teardown
    \/ Backoff
    \/ QueuePromptCalled

ConnSpec == Init /\ [][ConnNext]_vars

\* The loop under fair scheduling of its thread: the thread's own steps, and
\* the teardown run_forever makes on that thread after an error, are taken
\* when they stay possible. Nothing is asked of the network.
ConnFairSpec ==
    /\ ConnSpec
    /\ WF_vars(\E r \in BOOLEAN : Connect(r))
    /\ WF_vars(thread_pc = "teardown" /\ Teardown)
    /\ WF_vars(Backoff)

\* ------------------------------------------------------------------ claims
\* The steps of the websocket thread that write a task hash.
WsWrites ==
    ws_pc \in {"progress_write", "result_write", "completed_write"} /\ ws_pc' # ws_pc

\* No handler of either thread is in progress, no coroutine is scheduled or
\* waiting for its POST, and nothing is left to handle.
Quiet ==
    /\ loop_pc = "idle"
    /\ loop_tasks = <<>>
    /\ posting = <<>>
    /\ ws_pc = "idle"
    /\ inbox = <<>>

Edges ==
    {<<QUEUED, PROCESSING>>, <<PROCESSING, COMPLETED>>, <<PROCESSING, FAILED>>,
     <<QUEUED, FAILED>>}

\* C1: every change of a task's stored status follows one of the edges
\* QUEUED->PROCESSING, PROCESSING->COMPLETED, PROCESSING->FAILED,
\* QUEUED->FAILED; in particular none leaves COMPLETED or FAILED.
StatusFollowsEdges ==
    [][\A t \in Tasks :
         (redis[t] # NoRecord /\ redis'[t] # NoRecord
            /\ redis'[t].status # redis[t].status)
         => <<redis[t].status, redis'[t].status>> \in Edges]_vars

\* C2: an operation that changes one field of a task writes back no other
\* field with a value older than the stored one: the progress write keeps
\* status, result and prompt_id as stored, the status write keeps progress
\* and prompt_id, the prompt_id write keeps status and progress.
OtherFieldsKept ==
    [][\A t \in Tasks :
         /\ (ws_pc = "progress_write" /\ ws_pc' # ws_pc /\ ws_task = t)
            => /\ redis'[t].status = redis[t].status
               /\ redis'[t].result = redis[t].result
               /\ redis'[t].prompt_id = redis[t].prompt_id
         /\ (loop_pc = "status_write" /\ loop_pc' # loop_pc /\ loop_task = t)
            => /\ redis'[t].progress = redis[t].progress
               /\ redis'[t].prompt_id = redis[t].prompt_id
         /\ (loop_pc = "prompt_id_write" /\ loop_pc' # loop_pc /\ loop_task = t)
            => /\ redis'[t].progress = redis[t].progress
               /\ redis'[t].status = redis[t].status]_vars

\* C3: a request whose workflow has no template is answered 404, and its
\* task is FAILED with the result that names the missing workflow.
MissingWorkflowIs404 ==
    \A t \in Tasks :
        response[t] # NoResponse =>
            (redis[t].workflow_name \notin workflows =>
                /\ redis[t].status = FAILED
                /\ redis[t].result = NotFoundResult
                /\ response[t].code = 404)

\* C4: a request that failed after task creation for another reason than
\* template resolution is answered 500 and its task is FAILED with the error
\* in result: no task of a failed submit stays QUEUED.
FailedSubmitMarksFailed ==
    \A t \in Tasks :
        (response[t] # NoResponse /\ response[t].code # 200) =>
            (redis[t].workflow_name \in workflows =>
                /\ response[t].code = 500
                /\ redis[t].status = FAILED
                /\ redis[t].result # "")

\* C5: when generate answers 200 for task t, the answer carries status
\* PROCESSING, and get_task_status(t) served right after it reports
\* PROCESSING and progress 0, with the prompt id stored on the task.
AcceptedSubmitIsProcessing ==
    [][\A t \in Tasks :
         (response[t] = NoResponse /\ response'[t].code = 200) =>
            /\ response'[t].status = PROCESSING
            /\ get_task_status(t)'.status = PROCESSING
            /\ get_task_status(t)'.progress = 0
            /\ redis'[t].prompt_id = PromptOf(t)]_vars

\* C6: once a task's stored status has been COMPLETED or FAILED, no write
\* made while handling an engine message changes its stored status.
EventsKeepTerminalStatus ==
    [][\A t \in Tasks :
         (t \in ever_terminal /\ WsWrites)
         => redis'[t].status = redis[t].status]_vars

\* C7: once the job of a task has ended and every message of the engine has
\* been handled, the task is not left PROCESSING: the relay has moved it to
\* COMPLETED or FAILED.
EndedJobLeavesProcessing ==
    \A t \in Tasks :
        (engine[t] = "done" /\ Quiet) => redis[t].status # PROCESSING

\* C8: the write that ends the handling of executing with node null, for a
\* prompt the history holds, leaves the task COMPLETED with the gathered
\* images as its result.
CompletionStoresImages ==
    [][\A t \in Tasks :
         (ws_pc = "completed_write" /\ ws_pc' # ws_pc /\ ws_task = t
            /\ ws_result # "")
         => /\ redis'[t].status = COMPLETED
            /\ redis'[t].result = ws_result]_vars

\* C9: with a webhook configured, a task that has entered COMPLETED or
\* FAILED has had exactly one notification attempt once the handlers and the
\* scheduled coroutines have run.
TerminalNotifiedOnce ==
    \A t \in Tasks :
        (webhook_url /\ redis[t] # NoRecord /\ Quiet) =>
            (redis[t].status \in Terminal => attempts[t] = 1)

\* C10: a notification is scheduled only by a status update that wrote
\* COMPLETED or FAILED with a webhook configured (at the end of the method,
\* after its HSET and EXPIRE, with the record holding that status), and a
\* POST is issued only for a notification so scheduled; no other step
\* schedules or posts.
NotifyOnlyOnTerminalWrite ==
    [][/\ loop_tasks' # loop_tasks =>
            \/ /\ loop_tasks # <<>>
               /\ loop_tasks' = Tail(loop_tasks)
            \/ /\ Len(loop_tasks') = Len(loop_tasks) + 1
               /\ loop_tasks' = Append(loop_tasks, loop_tasks'[Len(loop_tasks')])
               /\ webhook_url
               /\ loop_tasks'[Len(loop_tasks')].status \in Terminal
               /\ redis'[loop_tasks'[Len(loop_tasks')].task_id].status
                    = loop_tasks'[Len(loop_tasks')].status
               /\ loop_pc \in {"status_expire", "failed_expire"}
               /\ loop_task = loop_tasks'[Len(loop_tasks')].task_id
       /\ \A t \in Tasks :
            attempts'[t] # attempts[t] =>
               /\ webhook_url
               /\ attempts'[t] = attempts[t] + 1
               /\ loop_tasks # <<>>
               /\ Head(loop_tasks).task_id = t
               /\ Head(loop_tasks).status \in Terminal
               /\ loop_tasks' = Tail(loop_tasks)
               /\ posting' = Append(posting, Head(loop_tasks))
               /\ redis' = redis
       /\ Len(posting') > Len(posting) =>
            attempts'[Head(loop_tasks).task_id]
               = attempts[Head(loop_tasks).task_id] + 1]_vars

\* C10 witness: a POST was issued for a task whose FAILED write scheduled it,
\* after the task's creation write.
NotifiedAfterFailedWrite ==
    \E t \in Tasks :
        /\ webhook_url
        /\ redis[t] # NoRecord
        /\ redis[t].status = FAILED
        /\ attempts[t] = 1

\* The steps of _notify_proxy_server: the one up to its await, which takes
\* the coroutine off the loop's queue, and the one after it, which ends a
\* POST under way.
NotifierStep ==
    \/ loop_tasks # <<>> /\ loop_tasks' = Tail(loop_tasks)
    \/ Len(posting') < Len(posting)

\* C11: no step of a notification, however its delivery ends (the POST
\* raises, is answered outside 2xx, or the task is not found any more), lets
\* an exception leave the coroutine or changes a task record, its lifetime,
\* or what the status update returned to its caller.
DeliveryFailureIsSilent ==
    [][NotifierStep
         => /\ redis' = redis
            /\ expiry' = expiry
            /\ tm_ret' = tm_ret
            /\ response' = response
            /\ escaped' = {}]_vars

\* C11 witness: the POST for a task that update_task_status made terminal
\* raised and the record holds that status, while the POST of another
\* notification is under way and the next status update is at its write.
DeliveryRaised ==
    \E t \in Tasks :
        /\ notify_log = "Error sending webhook notification"
        /\ attempts[t] = 1
        /\ \A i \in 1 .. Len(posting) : posting[i].task_id # t
        /\ posting # <<>>
        /\ redis[t] # NoRecord
        /\ redis[t].status \in Terminal
        /\ tm_ret = Return("update_task_status", t, TRUE, NoRecord, FALSE)
        /\ tm.op = "update_task_status"
        /\ tm.pc = "write"

\* The step in which a call of the store's client returns; tm_ret' is then
\* what it returned.
Returned ==
    tm' = NoCall /\ (tm # NoCall \/ calls' = calls + 1)

MutatingOps ==
    {"create_task", "update_task_progress", "update_task_status",
     "update_task_result", "update_prompt_id", "update_task_parameters"}

\* C12: when a mutating method returns success without a store error, for a
\* record that was live at the last command of the method (or that
\* create_task has just made), the key has its full lifetime ahead.
MutationRefreshesTtl ==
    [][(/\ Returned
        /\ tm_ret'.op \in MutatingOps
        /\ tm_ret'.ok
        /\ ~tm_ret'.store_error
        /\ (tm_ret'.op = "create_task" \/ redis[tm_ret'.task_id] # NoRecord))
         => expiry'[tm_ret'.task_id] = TaskTtl]_vars

\* The method in progress has written the hash of t and its EXPIRE is
\* still to come.
ExpireOutstanding(t) ==
    tm'.pc = "expire" /\ tm'.task_id = t

\* C13: every record present in the store has an expiry set once the
\* method that wrote it is over, whatever happened between its commands;
\* and get_task for a key that is gone returns None.
EveryRecordExpires ==
    [][/\ \A t \in Tasks :
            (redis'[t] # NoRecord /\ ~ExpireOutstanding(t)) => expiry'[t] > 0
       /\ (Returned /\ tm_ret'.op = "get_task" /\ redis'[tm_ret'.task_id] = NoRecord)
            => (~tm_ret'.ok /\ tm_ret'.task = NoRecord)]_vars

Min(a, b) == IF a < b THEN a ELSE b
Max(a, b) == IF a > b THEN a ELSE b

\* C14: when update_task_progress(task_id, progress) has written, the stored
\* progress is max(0, min(100, progress)); and the progress of every record
\* in the store is within 0 .. 100.
ProgressIsClamped ==
    [][/\ (tm.op = "update_task_progress" /\ Returned /\ tm_ret'.ok)
            => redis'[tm.task_id].progress = Max(0, Min(100, tm.progress))
       /\ \A t \in Tasks :
            redis'[t] # NoRecord => redis'[t].progress \in 0 .. 100]_vars

\* C14 witness: the second call of the client, update_task_progress for a
\* task of a job the engine accepted, has returned True and the record
\* holds 100, which only the argument 150 leads to.
StoredHundredFor150 ==
    \E t \in Tasks :
        /\ tm_ret = Return("update_task_progress", t, TRUE, NoRecord, FALSE)
        /\ calls = 2
        /\ redis[t] # NoRecord
        /\ redis[t].prompt_id = PromptOf(t)
        /\ redis[t].progress = 100

\* C15: the write that handles a progress message (prompt id J, value v,
\* max m > 0) for the task bound to J stores floor(v * 100 / m), brought into
\* 0 .. 100, as the task's progress and changes the record of no other task.
ProgressEventStoresPercent ==
    [][(ws_pc = "progress_write" /\ ws_pc' # ws_pc)
         => /\ redis'[ws_task].progress
                  = Max(0, Min(100, (ws_msg.value * 100) \div ws_msg.max))
            /\ \A t \in Tasks \ {ws_task} : redis'[t] = redis[t]]_vars

\* C16: while the handler is at work on a progress message whose max is 0,
\* none of its steps lets an exception leave it or changes a task record or
\* its lifetime, and the handling ends in the lookup of the task: no write
\* is ever pending for such a message. (The requests served meanwhile and
\* the expiry of keys go on changing the store.)
ZeroMaxIsSkipped ==
    [][/\ (HandlerStep /\ ws_pc = "idle" /\ Head(inbox).frame = "text"
             /\ Head(inbox).type = "progress" /\ Head(inbox).max = 0)
          => /\ escaped' = {}
             /\ ws_pc' \in {"idle", "scan"}
             /\ redis' = redis
             /\ expiry' = expiry
       /\ (ws_pc # "idle" /\ ws_msg.type = "progress" /\ ws_msg.max = 0)
          => /\ ws_pc = "scan"
             /\ HandlerStep => /\ escaped' = {}
                               /\ ws_pc' \in {"idle", "scan"}
                               /\ redis' = redis
                               /\ expiry' = expiry]_vars

\* C16 witness: the handler has logged the division by zero and is idle
\* again, while the task the message was for is in the store.
ZeroMaxLogged ==
    /\ relay_log = "Error processing WebSocket message: ZeroDivisionError"
    /\ escaped = {}
    /\ ws_pc = "idle"
    /\ \E t \in Tasks : redis[t] # NoRecord /\ redis[t].prompt_id = PromptOf(t)

\* The live tasks whose stored prompt_id is J once the step is done.
HoldersAfter(J) ==
    {t \in Tasks : redis'[t] # NoRecord /\ redis'[t].prompt_id = J}

\* C17: get_task_by_prompt_id(J), when no store command of it raised,
\* returns a task that is live and whose stored prompt_id is J, and returns
\* None only when no live task holds J, the holder having expired after the
\* key scan included.
LookupReturnsHolder ==
    [][/\ (tm.op = "get_task_by_prompt_id" /\ Returned /\ ~tm_ret'.store_error)
            => IF tm_ret'.ok
               THEN /\ tm_ret'.task.id \in HoldersAfter(tm.prompt_id)
                    /\ to_redis_dict(tm_ret'.task) = redis'[tm_ret'.task.id]
               ELSE HoldersAfter(tm.prompt_id) = {}
       /\ (tm = NoCall /\ Returned /\ tm_ret'.op = "get_task_by_prompt_id"
              /\ ~tm_ret'.store_error)
            => (~tm_ret'.ok /\ LiveKeys' = {})]_vars

\* C17 witness: the lookup returned the task that holds the prompt id while
\* another task, which does not hold it, is live too.
LookupFoundAmongTwo ==
    /\ tm_ret.op = "get_task_by_prompt_id"
    /\ tm_ret.ok
    /\ redis[tm_ret.task.id] # NoRecord
    /\ redis[tm_ret.task.id].prompt_id = tm_ret.task.prompt_id
    /\ \E t \in Tasks \ {tm_ret.task.id} :
          redis[t] # NoRecord /\ redis[t].prompt_id # tm_ret.task.prompt_id

\* C18: no two live tasks hold the same non-empty prompt id.
PromptIdHeldByOne ==
    \A t1, t2 \in Tasks :
        (/\ t1 # t2
         /\ redis[t1] # NoRecord
         /\ redis[t2] # NoRecord
         /\ redis[t1].prompt_id # "")
        => redis[t1].prompt_id # redis[t2].prompt_id

\* C18 witness: two live tasks, each holding the prompt id of its own job.
TwoTasksHoldPromptIds ==
    \E t1, t2 \in Tasks :
        /\ t1 # t2
        /\ redis[t1] # NoRecord
        /\ redis[t2] # NoRecord
        /\ redis[t1].prompt_id = PromptOf(t1)
        /\ redis[t2].prompt_id = PromptOf(t2)

\* C19: a task whose stored status is QUEUED or PROCESSING has no result:
\* a result is stored only on COMPLETED and FAILED tasks.
ResultOnlyOnTerminal ==
    \A t \in Tasks :
        (redis[t] # NoRecord /\ redis[t].status \in {QUEUED, PROCESSING})
        => redis[t].result = ""

\* C20: when the relay has the images of a finished job uploaded (the
\* processed descriptors carry the S3 url, or the fallback of a failed
\* upload), the stored status of the job's task is already COMPLETED.
UploadAfterCompleted ==
    [][(/\ ws_pc = "history"
        /\ ws_result' \in {ImagesResult("s3"), ImagesResult("tmp")})
         => (redis[ws_task] # NoRecord /\ redis[ws_task].status = COMPLETED)]_vars

\* C21: when the download or the upload of an image fails, the descriptors
\* process_comfyui_images returns for the task result keep the url the engine
\* gave them (the /view url).
FailedTransferKeepsEngineUrl ==
    [][\A s3 \in {"download_failed", "upload_failed"} :
         History(TRUE, TRUE, s3) => ws_result' = ImagesResult("view")]_vars

\* C22: the reconnect sleeps since the socket last opened (or since the
\* start) are 5, 7.5, 11.25, ...: the first is 5 and each next one is 1.5
\* times the one before, capped at 60; reconnect_delay itself is between 5
\* and 60 in every state.
BackoffSequence ==
    /\ 5 * DelayScale <= reconnect_delay
    /\ reconnect_delay <= 60 * DelayScale
    /\ waits # <<>> => waits[1] = 5 * DelayScale
    /\ \A i \in 1 .. Len(waits) : waits[i] <= 60 * DelayScale
    /\ \A i \in 1 .. Len(waits) - 1 :
         2 * waits[i + 1] = Min(3 * waits[i], 2 * 60 * DelayScale)

\* A run of failed attempts long enough for two sleeps at the cap.
BackoffReachedCap ==
    /\ Len(waits) >= 9
    /\ waits[8] = 60 * DelayScale
    /\ waits[9] = 60 * DelayScale

\* C23: the client is connected only while run_forever holds an open
\* socket, so every error, close or missed pong leaves it disconnected; and
\* whenever a connection or an attempt has ended, the thread comes to make
\* a new WebSocketApp and enter run_forever again.
LostConnectionIsRetried ==
    /\ [](thread_pc # "open" => ~is_connected)
    /\ (thread_pc \in {"teardown", "returned"}) ~> (thread_pc = "connecting")

\* A new attempt is under way after a connection was lost.
RetryUnderWay ==
    /\ thread_pc = "connecting"
    /\ waits # <<>>

\* C24: the step that makes the client connected leaves exactly one frame
\* sent on the socket, a subscribe request for progress, executing and
\* execution_cached, and reconnect_delay at 5; and whenever the handler
\* takes a message, that request is what has been sent on the socket.
OpenSubscribesFirst ==
    [][/\ (~is_connected /\ is_connected')
          => /\ Len(ws_sent') = 1
             /\ ws_sent'[1].type = "subscribe"
             /\ {ws_sent'[1].events[i] : i \in 1 .. Len(ws_sent'[1].events)}
                  = {"progress", "executing", "execution_cached"}
             /\ reconnect_delay' = 5 * DelayScale
       /\ OnWsMessage => (Len(ws_sent) = 1 /\ ws_sent[1].type = "subscribe")]_vars

\* A message has been handled on an open connection.
HandledAfterSubscribe ==
    /\ is_connected
    /\ relay_log # None
    /\ Len(ws_sent) = 1

\* C25: no step the handler takes for a message, whatever the message and
\* whether or not Redis answers, lets an exception out of _on_ws_message or
\* touches the connection: is_connected, reconnect_needed, the position of
\* the thread's loop and the frames still waiting on the socket stay as
\* they are, so the messages after it are handled in their turn.
MessageErrorsStayInside ==
    [][HandlerStep
         => /\ escaped' = escaped
            /\ UNCHANGED <<is_connected, reconnect_needed, thread_pc, ws_sent>>
            /\ \/ inbox' = inbox
               \/ inbox # <<>> /\ inbox' = Tail(inbox)]_vars

\* The handler is at work on a progress message after it logged the
\* exception of an earlier one.
HandledAfterError ==
    /\ relay_log # None
    /\ ws_pc = "progress_write"
    /\ is_connected

\* The head of the socket is a progress or executing message with its data.
EventAtHead ==
    /\ ws_pc = "idle"
    /\ inbox # <<>>
    /\ Head(inbox).frame = "text"
    /\ Head(inbox).type \in {"progress", "executing"}
    /\ Head(inbox).data

\* No stored hash holds prompt id j.
Unheld(j) ==
    \A t \in Tasks : redis[t] = NoRecord \/ redis[t].prompt_id # j

\* C26: a progress or executing message without a prompt id, or with one
\* that no stored task holds, changes no hash of the store and raises and
\* logs no error: the handler leaves it when it takes it, or scans the keys
\* for it and leaves it once they are used up.
UnknownJobIsDropped ==
    [][/\ ((OnWsMessage \/ RelayStoreError) /\ EventAtHead
             /\ (Head(inbox).prompt_id = None \/ Unheld(Head(inbox).prompt_id)))
          => /\ redis' = redis
             /\ ws_pc' \in {"idle", "scan"}
             /\ Head(inbox).prompt_id = None => ws_pc' = "idle"
             /\ escaped' = escaped
             /\ relay_log' = relay_log
       /\ (HandlerStep /\ ws_pc = "scan" /\ Unheld(ws_msg.prompt_id))
          => /\ redis' = redis
             /\ ws_pc' \in {"idle", "scan"}
             /\ escaped' = escaped
             /\ relay_log' = relay_log]_vars

\* The scan for the job of a progress message is under way; the record of
\* the task that held that job has expired, and the store has a task with
\* another job.
UnknownJobArrived ==
    /\ ws_pc = "scan"
    /\ ws_msg = ProgressMessage(PromptOf(1), 29, 50)
    /\ engine[1] = "running"
    /\ redis[1] = NoRecord
    /\ redis[2] # NoRecord
    /\ redis[2].prompt_id = PromptOf(2)

\* The head of the socket is a frame the relay has nothing to do for: bytes,
\* a status message, a message of another type, or an executing message
\* that names a node.
NoOpAtHead ==
    /\ ws_pc = "idle"
    /\ inbox # <<>>
    /\ \/ Head(inbox).frame = "bytes"
       \/ Head(inbox).frame = "text"
          /\ Head(inbox).type \notin {"progress", "executing"}
       \/ Head(inbox).frame = "text"
          /\ Head(inbox).type = "executing"
          /\ Head(inbox).data
          /\ "node" \in Head(inbox).keys
          /\ Head(inbox).node # None

\* C27: bytes, status messages, messages of other types and executing
\* messages with a node change no hash of the store: the first three are
\* left in the step that takes them, and for the last the handler does no
\* more than look its task up.
NoOpFramesWriteNothing ==
    [][/\ ((OnWsMessage \/ RelayStoreError) /\ NoOpAtHead)
          => /\ redis' = redis
             /\ ws_pc' \in {"idle", "scan"}
             /\ Head(inbox).type # "executing" => ws_pc' = "idle"
       /\ (ws_pc # "idle" /\ ws_msg.type = "executing" /\ "node" \in ws_msg.keys
             /\ ws_msg.node # None)
          => /\ ws_pc = "scan"
             /\ HandlerStep => /\ redis' = redis
                               /\ ws_pc' \in {"idle", "scan"}]_vars

\* The task of an executing message with a node is being looked up, and a
\* task holds its job.
NodeMessageArrived ==
    /\ ws_pc = "scan"
    /\ ws_msg = ExecutingMessage(PromptOf(1), "node")
    /\ ~Unheld(PromptOf(1))

CreateTaskReturns ==
    /\ tm' = NoCall
    /\ \/ tm = NoCall /\ next_id' = next_id + 1
       \/ tm.op = "create_task"

\* The step in which create_task, called by the store's client, returns.
ClientCreateReturns ==
    /\ tm' = NoCall
    /\ \/ tm = NoCall /\ calls' = calls + 1 /\ next_id' = next_id + 1
       \/ tm.op = "create_task"

\* C29: create_task returns a task whose id no task created before it holds
\* (the newest id drawn, and the id of no other record of the store),
\* with status QUEUED, progress 0, created_at equal to updated_at, no result
\* and no prompt id; when no Redis command of the call raised, the record
\* get_task reads for that id right after the call has the same field values.
CreatedTaskIsFreshAndStored ==
    [][ClientCreateReturns =>
          LET task == tm_ret'.task IN
          /\ tm_ret'.op = "create_task"
          /\ tm_ret'.ok
          /\ task.id = next_id' - 1
          /\ \A t \in Tasks \ {task.id} :
                redis'[t] # NoRecord => redis'[t].id # task.id
          /\ task.status = QUEUED
          /\ task.progress = 0
          /\ task.created_at = task.updated_at
          /\ task.result = None
          /\ task.prompt_id = None
          /\ ~tm_ret'.store_error =>
                /\ redis'[task.id] # NoRecord
                /\ from_redis_dict(redis'[task.id]) = task]_vars

\* create_task has stored a task, after the clock has moved, next to the
\* record of an older task, which a request left PROCESSING.
CreatedNextToOlderTask ==
    /\ tm_ret.op = "create_task"
    /\ ~tm_ret.store_error
    /\ tm_ret.task.created_at > 0
    /\ redis[tm_ret.task_id] # NoRecord
    /\ \E t \in Tasks : /\ t # tm_ret.task_id
                        /\ redis[t] # NoRecord
                        /\ redis[t].status = PROCESSING

\* C30: when a Redis command of create_task raises, the call still returns a
\* Task with status QUEUED, progress 0 and a fresh id, and the store holds
\* no record for that id afterwards.
FailedCreateLeavesNoRecord ==
    [][CreateTaskReturns /\ tm_ret'.store_error =>
          /\ tm_ret'.ok
          /\ tm_ret'.task.id = tm_ret'.task_id
          /\ tm_ret'.task.id = next_id' - 1
          /\ tm_ret'.task.status = QUEUED
          /\ tm_ret'.task.progress = 0
          /\ redis'[tm_ret'.task_id] = NoRecord]_vars

\* ------------------------------------------------- updates of a missing task
UpdateOps ==
    {"update_task_progress", "update_task_status", "update_task_result",
     "update_prompt_id", "update_task_parameters"}

\* The step in which the client calls an update method for task t: the call
\* is either under way afterwards or has returned.
CalledUpdate(t) ==
    /\ tm = NoCall
    /\ calls' = calls + 1
    /\ \/ tm'.op \in UpdateOps /\ tm'.task_id = t
       \/ tm' = NoCall /\ tm_ret'.op \in UpdateOps /\ tm_ret'.task_id = t

\* C31: an update method called for a task id without a record returns
\* False in that step, lets no exception out, and leaves every hash and
\* every expiry as it was; no record appears for that id.
UpdateOfMissingTaskIsRefused ==
    [][\A t \in Tasks :
          CalledUpdate(t) /\ redis[t] = NoRecord =>
              /\ tm' = NoCall
              /\ ~tm_ret'.ok
              /\ escaped' = escaped
              /\ redis' = redis
              /\ expiry' = expiry
              /\ loop_tasks' = loop_tasks]_vars

\* An update method has returned False, without a Redis error, for the id of
\* a task that generate had stored, with the job the engine accepted, and
\* whose key has expired since.
UpdateOfExpiredTaskRefused ==
    /\ tm_ret.op \in UpdateOps
    /\ ~tm_ret.ok
    /\ ~tm_ret.store_error
    /\ tm_ret.task_id \in 1 .. next_id - 1
    /\ response[tm_ret.task_id].code = 200
    /\ now >= TaskTtl
    /\ redis[tm_ret.task_id] = NoRecord

\* ------------------------------------------------ status of a missing task
\* The step in which GET /tasks/{t} is served.
ServedStatus(t) ==
    /\ tm = NoCall
    /\ calls' = calls + 1
    /\ tm' = NoCall
    /\ tm_ret'.op = "get_task_status"
    /\ tm_ret'.task_id = t

\* C32: get_task_status for an id without a record answers 404 and leaves
\* every hash and every expiry as it was: no record appears for that id.
StatusOfMissingTaskIs404 ==
    [][\A t \in Tasks :
          ServedStatus(t) /\ redis[t] = NoRecord =>
              /\ response'[t].code = 404
              /\ redis' = redis
              /\ expiry' = expiry
              /\ next_id' = next_id]_vars

\* The status of an id never given out was asked for a second time,
\* without a Redis error, while another task is stored, and 404 was the
\* answer.
AskedForUnknownTask ==
    /\ tm_ret.op = "get_task_status"
    /\ ~tm_ret.store_error
    /\ calls = 2
    /\ tm_ret.task_id >= next_id
    /\ response[tm_ret.task_id].code = 404
    /\ redis[tm_ret.task_id] = NoRecord
    /\ \E t \in Tasks : redis[t] # NoRecord

\* ------------------------------------------------------ modifications
\* The modifications have an entry for a node id the template does not have.
TargetsUnknownNode(mods) ==
    \E i \in 1 .. Len(mods) : \A n \in 1 .. Len(NodeIds) : NodeIds[n] # mods[i].node

\* The request that created task t has been answered.
Answered(t) == t < next_id /\ loop_task # t

\* C33: a request for an existing workflow (one that got a payload) whose
\* modifications target a node id the template does not have is answered
\* with a client error, its task, while stored, is FAILED with a message in
\* result, and no job of it is on the engine.
InvalidModificationsRejected ==
    \A t \in Tasks :
        /\ Answered(t)
        /\ submitted[t].payload # NoPayload
        /\ TargetsUnknownNode(submitted[t].modifications)
        => /\ response[t].code \in 400 .. 499
           /\ engine[t] = "none"
           /\ redis[t] # NoRecord =>
                 redis[t].status = FAILED /\ redis[t].result # ""

\* ------------------------------------------------- resolving a workflow
\* C34: resolving a name yields the template when the directory has a file
\* for it and WorkflowNotFoundError when it has none: the constructor raises
\* it for a missing file, and get_workflow of either registry raises it for
\* a name without a file and returns the executor for a name with one. The
\* files of the directory are templates: each one read holds JSON.
ResolvingGivesTemplateOrNotFound ==
    /\ wf_ret.op \in {"WorkflowExecutor", "get_workflow", "backend_get_workflow"}
       /\ wf_ret.valid
       /\ ~wf_ret.found
       => wf_ret.raised = "WorkflowNotFoundError"
    /\ wf_ret.op \in {"get_workflow", "backend_get_workflow"}
       /\ wf_ret.valid
       /\ wf_ret.found
       => wf_ret.raised = None

\* ------------------------------------------------ status and prompt id
\* C35: every stored task whose status is PROCESSING holds a prompt id.
ProcessingHasPromptId ==
    \A t \in Tasks :
        redis[t] # NoRecord /\ redis[t].status = PROCESSING
        => redis[t].prompt_id # ""

\* C36: a stored task whose status is FAILED holds no prompt id and has no
\* job on the engine; a status becomes FAILED only in generate's handler
\* for a workflow that was not found, which comes before the submission, and
\* never in a step of the websocket thread.
FailedNeverHasJob ==
    /\ [](\A t \in Tasks :
             redis[t] # NoRecord /\ redis[t].status = FAILED
             => redis[t].prompt_id = "" /\ engine[t] = "none")
    /\ [][\A t \in Tasks :
             /\ redis'[t] # NoRecord
             /\ redis'[t].status = FAILED
             /\ (redis[t] = NoRecord \/ redis[t].status # FAILED)
             => loop_pc = "failed_write" /\ loop_task = t /\ ws_pc' = ws_pc]_vars

\* A task is FAILED while the websocket thread has completed another task,
\* which holds its prompt id.
FailedNextToCompleted ==
    \E t, u \in Tasks :
        /\ redis[t] # NoRecord /\ redis[t].status = FAILED
        /\ redis[u] # NoRecord /\ redis[u].status = COMPLETED
        /\ redis[u].prompt_id # ""

\* ------------------------------------------ update_task_status, return value
\* The step in which update_task_status returns for task t.
StatusUpdateReturns(t) ==
    /\ tm_ret'.op = "update_task_status"
    /\ tm_ret'.task_id = t
    /\ tm' = NoCall
    /\ \/ tm.op = "update_task_status"
       \/ tm = NoCall /\ calls' = calls + 1

\* C37: update_task_status returns True exactly when it wrote the status:
\* a call that returns True has issued its HSET (it is at its EXPIRE), and
\* a call that returns False has not, and leaves the hash as it is.
FalseMeansNothingWritten ==
    [][\A t \in Tasks :
          StatusUpdateReturns(t) =>
              IF tm_ret'.ok
              THEN tm.pc = "expire"
              ELSE tm.pc # "expire" /\ redis'[t] = redis[t]]_vars

\* ------------------------------------------------ template and payload
\* The payload a request for an existing workflow gets from the template
\* file and its own modifications.
PayloadOf(mods) == ModifyNodes(TemplateFile, mods)

\* C38: the payload of every request for an existing workflow is the
\* template file with that request's modifications applied; a request
\* without modifications gets the values of the file.
PayloadFromFileAndOwnModifications ==
    \A t \in Tasks :
        submitted[t].payload # NoPayload
        => submitted[t].payload = PayloadOf(submitted[t].modifications)

\* ------------------------------------------------ progress at completion
\* C39: every stored task whose status is COMPLETED has progress 100.
CompletedHasFullProgress ==
    \A t \in Tasks :
        redis[t] # NoRecord /\ redis[t].status = COMPLETED
        => redis[t].progress = 100

====
